---- MODULE Spec2Model ----
(***************************************************************************)
(* Model of the SPED import of simulador-integrado-v4:                     *)
(*   - SpedExtractor (js/importador/importador/sped-extractor.js): the     *)
(*     tax-composition resolver and the top-level extraction;             *)
(*   - ImportacaoController (importacao-controller.js): the promise chain  *)
(*     that reads the files, combines the results and fills the simulator; *)
(*   - SpedParser (unnamed/part_000): the per-file decode/aggregate pass.  *)
(*                                                                         *)
(* Money is modelled in whole currency units (naturals).  A rate is kept   *)
(* in hundredths of a percentage point (1.65% = 165), computed with        *)
(* integer division; the inputs used are chosen so that the divisions are  *)
(* exact.  An absent object property (undefined) is NaoDef.                *)
(***************************************************************************)
EXTENDS Integers, Sequences, FiniteSets, TLC

VARIABLES
    pc,          \* position of the run: which operation has been applied
    imposto,     \* tax under resolution (resolver specification)
    dadosSped,   \* aggregated dataset handed to the resolver functions
    faturamento, \* faturamentoMensal argument of the calcularDebitos* functions
    debito,      \* value returned by calcularDebitos<imposto>
    entrada,     \* argument of extrairDadosParaSimulador
    saida,       \* structure returned by extrairDadosParaSimulador
    escapou,     \* TRUE when an exception left extrairDadosParaSimulador
    arquivos,    \* controller: per selected file, content and promise state
    importacao,  \* controller: state of the Promise.all chain
    simulador    \* controller: what was handed to preencherCamposSimulador

vars == <<pc, imposto, dadosSped, faturamento, debito, entrada, saida, escapou,
          arquivos, importacao, simulador>>

----------------------------------------------------------------------------
(* Bounds of the model *)

MaxRegs == 2        \* longest list of ledger records of one category

(* Program constants *)

NaoDef == -1                \* an absent (undefined) property
LimiteValor == 1000000000   \* "Entre 0 e 1 bilhão"

Impostos == {"pis", "cofins", "icms", "ipi", "iss"}

(* FonteDados *)
FonteSPED == "sped"
FonteESTIMADO == "estimado"
FonteCALCULADO == "calculado"
SemFonte == "sem-fonte"     \* a bare number: no provenance attached

----------------------------------------------------------------------------
(* Generic helpers *)

SeqsAte(S, n) == UNION {[1..k -> S] : k \in 0..n}

RECURSIVE Soma(_)
Soma(s) == IF s = <<>> THEN 0 ELSE Head(s) + Soma(Tail(s))

Max2(a, b) == IF a >= b THEN a ELSE b

\* a || b
Ou(a, b) ==
    LET
        \* JavaScript truthiness of a number-or-undefined property
        Verdadeiro(v) == v /= NaoDef /\ v /= 0
    IN  IF Verdadeiro(a) THEN a ELSE b

----------------------------------------------------------------------------
(* sped-extractor.js: sector and regime classification *)

cfopsIndustria ==
    {"5101", "5102", "5103", "5104", "5105", "5106", "5109",
     "6101", "6102", "6103", "6104", "6105", "6106", "6109",
     "5124", "5125", "6124", "6125", "5901", "5902", "6901", "6902"}

cfopsServicos ==
    {"5933", "5932", "6933", "6932", "9301", "9302",
     "5301", "5302", "5303", "5304", "5305", "5306", "5307",
     "6301", "6302", "6303", "6304", "6305", "6306", "6307"}

\* cfop.startsWith('5') || cfop.startsWith('6'), over the codes the model uses
PrimeiroDigito(cfop) ==
    CASE cfop \in {"5101", "5102", "5103", "5104", "5105", "5106", "5109",
                   "5124", "5125", "5901", "5902", "5933", "5932",
                   "5301", "5302", "5303", "5304", "5305", "5306", "5307",
                   "5405", "5403", "5656"} -> "5"
      [] cfop \in {"6101", "6102", "6103", "6104", "6105", "6106", "6109",
                   "6124", "6125", "6901", "6902", "6933", "6932",
                   "6301", "6302", "6303", "6304", "6305", "6306", "6307",
                   "6403", "6404"} -> "6"
      [] cfop \in {"9301", "9302"} -> "9"
      [] cfop \in {"1102", "1403", "1933"} -> "1"
      [] cfop \in {"2102", "2403"} -> "2"
      [] OTHER -> "0"

\* industry wins only with a score strictly above the other two
analisarCFOPs_MaiorEstrito(cfops) ==
    LET countIndustria == 2 * Cardinality(cfops \cap cfopsIndustria)
        countServicos == Cardinality((cfops \ cfopsIndustria) \cap cfopsServicos)
        countComercio ==
            Cardinality({c \in cfops \ (cfopsIndustria \cup cfopsServicos) :
                            PrimeiroDigito(c) \in {"5", "6"}})
    IN  IF countIndustria > Max2(countComercio, countServicos)
        THEN "industria"
        ELSE IF countServicos > countComercio THEN "servicos" ELSE "comercio"

\* analisarCFOPs: cfops is the set of distinct codes (Array.from(new Set))
analisarCFOPs(cfops) ==
    LET countIndustria == 2 * Cardinality(cfops \cap cfopsIndustria)
        countServicos == Cardinality((cfops \ cfopsIndustria) \cap cfopsServicos)
        countComercio ==
            Cardinality({c \in cfops \ (cfopsIndustria \cup cfopsServicos) :
                            PrimeiroDigito(c) \in {"5", "6"}})
    IN  IF countIndustria > 0 /\ countIndustria >= Max2(countComercio, countServicos)
        THEN "industria"
        ELSE IF countServicos > countComercio THEN "servicos" ELSE "comercio"

\* extrairCFOPs: distinct truthy cfop of itens and itensAnaliticos
extrairCFOPs(d) == d.cfopsItens \cup d.cfopsAnaliticos

determinarTipoEmpresa(d) ==
    IF Len(d.impIpi) > 0 \/ Len(d.debIpi) > 0
    THEN "industria"
    ELSE analisarCFOPs(extrairCFOPs(d))

determinarRegimeTributario(d) ==
    IF d.formaApuracao \in {"1", "2"} THEN "real"
    ELSE IF d.formaApuracao \in {"3", "4"} THEN "presumido"
    ELSE IF d.formaApuracao \in {"5", "6", "7"} THEN "simples"
    ELSE IF d.temRegimePisCofins /\ d.codigoIncidencia = "1" THEN "real"
    ELSE IF d.temRegimePisCofins /\ d.codigoIncidencia = "2" THEN "presumido"
    ELSE IF d.temSimples THEN "simples"
    ELSE IF d.temCreditosPis \/ d.temCreditosCofins THEN "real"
    ELSE "presumido"

determinarRegimePisCofins(d) ==
    IF d.temRegimePisCofins /\ d.codigoIncidencia \in {"1", "3"} THEN "nao-cumulativo"
    ELSE IF d.temRegimePisCofins /\ d.codigoIncidencia = "2" THEN "cumulativo"
    ELSE IF determinarRegimeTributario(d) = "real" THEN "nao-cumulativo"
    ELSE "cumulativo"

\* obterAliquotaMediaEstado, in thousandths (0.18 = 180)
obterAliquotaMediaEstado(uf) ==
    CASE uf \in {"AC", "GO", "PA"} -> 190
      [] uf \in {"AL", "AM", "CE", "DF", "PB", "RJ", "RN", "RR", "SE", "TO"} -> 200
      [] uf \in {"AP", "MG", "SP"} -> 180
      [] uf \in {"BA", "PE"} -> 205
      [] uf \in {"ES", "MT", "MS", "RS", "SC"} -> 170
      [] uf = "MA" -> 230
      [] uf \in {"PR", "RO"} -> 195
      [] uf = "PI" -> 225
      [] OTHER -> 180

----------------------------------------------------------------------------
(* sped-extractor.js: the debit chains, one per tax *)

\* extrairValorSeguro(objeto, propriedade) for a numeric-or-absent property,
\* followed by "|| parseFloat(reg[n]?.replace(...) || 0)", which is 0 for a
\* decoded record (it has no positional fields)
extrairValorSeguro(valor) ==
    IF valor /= NaoDef /\ valor > 0 /\ valor < LimiteValor THEN valor ELSE 0

\* value of one PIS/COFINS debit record: the first of the two properties
\* that is a number
ValorContribuicao(reg) ==
    IF reg.valorTotalContribuicao /= NaoDef THEN reg.valorTotalContribuicao
    ELSE IF reg.valorContribuicaoAPagar /= NaoDef THEN reg.valorContribuicaoAPagar
    ELSE 0

\* "if (valor > 0 && valor < 1000000000) totalDebitos += valor"
ValorValidado(v) == IF v > 0 /\ v < LimiteValor THEN v ELSE 0

TotalContribuicao(regs) ==
    Soma([k \in DOMAIN regs |-> ValorValidado(ValorContribuicao(regs[k]))])

TotalApurado(regs) == Soma([k \in DOMAIN regs |-> extrairValorSeguro(regs[k])])

\* PRIORIDADE 3 of PIS/COFINS: rate in hundredths of a percent
EstimativaContribuicao(d, fat, aliqNaoCumulativo, aliqCumulativo) ==
    IF fat > 0
    THEN IF determinarRegimeTributario(d) = "simples" THEN 0
         ELSE IF determinarRegimePisCofins(d) = "nao-cumulativo"
              THEN (fat * aliqNaoCumulativo) \div 10000
              ELSE (fat * aliqCumulativo) \div 10000
    ELSE 0

\* mutant: the M200 totalization is consulted before the direct records
calcularDebitosPIS_TotalizacaoPrimeiro(d, fat) ==
    IF Len(d.m200) > 0 /\ TotalApurado(d.m200) > 0
    THEN TotalApurado(d.m200)
    ELSE IF Len(d.debPis) > 0 /\ TotalContribuicao(d.debPis) > 0
    THEN TotalContribuicao(d.debPis)
    ELSE EstimativaContribuicao(d, fat, 165, 65)

calcularDebitosPIS(d, fat) ==
    IF Len(d.debPis) > 0 /\ TotalContribuicao(d.debPis) > 0
    THEN TotalContribuicao(d.debPis)
    ELSE IF Len(d.m200) > 0 /\ TotalApurado(d.m200) > 0
    THEN TotalApurado(d.m200)
    ELSE EstimativaContribuicao(d, fat, 165, 65)

calcularDebitosCOFINS(d, fat) ==
    IF Len(d.debCofins) > 0 /\ TotalContribuicao(d.debCofins) > 0
    THEN TotalContribuicao(d.debCofins)
    ELSE IF Len(d.m600) > 0 /\ TotalApurado(d.m600) > 0
    THEN TotalApurado(d.m600)
    ELSE EstimativaContribuicao(d, fat, 760, 300)

\* debito.valorTotalDebitos || debito.valorSaldoAPagar || 0
TotalDebitosICMS(regs) ==
    Soma([k \in DOMAIN regs |->
            Ou(regs[k].valorTotalDebitos, Ou(regs[k].valorSaldoAPagar, 0))])

\* C190 records of outbound operations (CFOP 5xxx and 6xxx)
TotalC190(regs) ==
    Soma([k \in DOMAIN regs |->
            IF PrimeiroDigito(regs[k].cfop) \in {"5", "6"}
            THEN extrairValorSeguro(regs[k].valorIcms) ELSE 0])

calcularDebitosICMS(d, fat) ==
    IF Len(d.debIcms) > 0 /\ TotalDebitosICMS(d.debIcms) > 0
    THEN TotalDebitosICMS(d.debIcms)
    ELSE IF Len(d.e110) > 0 /\ TotalApurado(d.e110) > 0
    THEN TotalApurado(d.e110)
    ELSE IF Len(d.c190) > 0 /\ TotalC190(d.c190) > 0
    THEN TotalC190(d.c190)
    ELSE IF determinarTipoEmpresa(d) /= "servicos" /\ fat > 0
    THEN (fat * 6 * obterAliquotaMediaEstado(d.uf)) \div 10000
    ELSE 0

\* debito.valorTotalDebitos || 0
TotalImpostosIPI(regs) == Soma([k \in DOMAIN regs |-> Ou(regs[k], 0)])

\* reg.valorTotalDebitos || reg.valorTotalAPagar || 0
TotalDebitosIPI(regs) ==
    Soma([k \in DOMAIN regs |->
            Ou(regs[k].valorTotalDebitos, Ou(regs[k].valorTotalAPagar, 0))])

calcularDebitosIPI(d, fat) ==
    IF determinarTipoEmpresa(d) /= "industria" THEN 0
    ELSE IF Len(d.impIpi) > 0 /\ TotalImpostosIPI(d.impIpi) > 0
    THEN TotalImpostosIPI(d.impIpi)
    ELSE IF Len(d.debIpi) > 0 /\ TotalDebitosIPI(d.debIpi) > 0
    THEN TotalDebitosIPI(d.debIpi)
    ELSE IF fat > 0 THEN (fat * 4) \div 100
    ELSE 0

\* registro.valorIss || registro.valorTotal || 0
TotalISS(regs) ==
    Soma([k \in DOMAIN regs |-> Ou(regs[k].valorIss, Ou(regs[k].valorTotal, 0))])

\* serv.valorOperacao || serv.valorServico || 0
BaseCalculoServicos(regs) ==
    Soma([k \in DOMAIN regs |->
            Ou(regs[k].valorOperacao, Ou(regs[k].valorServico, 0))])

calcularDebitosISS(d, fat) ==
    IF determinarTipoEmpresa(d) /= "servicos" THEN 0
    ELSE IF Len(d.impIss) > 0 /\ TotalISS(d.impIss) > 0
    THEN TotalISS(d.impIss)
    ELSE IF fat > 0
    THEN LET base == IF BaseCalculoServicos(d.recServ) > 0
                     THEN BaseCalculoServicos(d.recServ) ELSE fat
         IN  (base * 5) \div 100
    ELSE 0

----------------------------------------------------------------------------
(* Inputs of the resolver specification *)

DadosVazio ==
    [debPis |-> <<>>, m200 |-> <<>>, debCofins |-> <<>>, m600 |-> <<>>,
     debIcms |-> <<>>, e110 |-> <<>>, c190 |-> <<>>,
     impIpi |-> <<>>, debIpi |-> <<>>, impIss |-> <<>>, recServ |-> <<>>,
     formaApuracao |-> "", temRegimePisCofins |-> FALSE, codigoIncidencia |-> "",
     temSimples |-> FALSE, temCreditosPis |-> FALSE, temCreditosCofins |-> FALSE,
     cfopsItens |-> {}, cfopsAnaliticos |-> {}, uf |-> ""]

ArquivosNenhum == <<>>
ImportacaoParada == [estado |-> "parada", log |-> <<>>]
SimuladorVazio == [preenchido |-> FALSE]

----------------------------------------------------------------------------
(* Resolver specification: one debit chain applied to one dataset *)

InitDebitos ==
    LET
        EntradasDe(i) ==
            LET
                RegsContribuicao ==
                    [valorTotalContribuicao : {NaoDef, 0, 40, LimiteValor},
                     valorContribuicaoAPagar : {NaoDef, 70}]

                RegsApuracao == {0, 30}

                RegsDebitoICMS == [valorTotalDebitos : {NaoDef, 0, 50}, valorSaldoAPagar : {NaoDef, 20}]

                RegsC190 == {[cfop |-> "5102", valorIcms |-> 10], [cfop |-> "1102", valorIcms |-> 10]}

                RegsImpostoIPI == {NaoDef, 0, 60}

                RegsDebitoIPI == [valorTotalDebitos : {NaoDef, 0, 25}, valorTotalAPagar : {NaoDef, 15}]

                RegsISS == [valorIss : {NaoDef, 0, 35}, valorTotal : {NaoDef, 80}]

                RegsServico == [valorOperacao : {NaoDef, 200}, valorServico : {NaoDef, 100}]

                Regimes ==
                    {[formaApuracao |-> f, temRegimePisCofins |-> r[1], codigoIncidencia |-> r[2]] :
                        f \in {"", "5"}, r \in {<<FALSE, "">>, <<TRUE, "1">>, <<TRUE, "2">>}}

                ConjuntosCFOP == {{}, {"5933"}, {"5933", "5405", "5403"}, {"5101"}}

                EntradasPIS ==
                    {[DadosVazio EXCEPT !.debPis = l1, !.m200 = l2,
                                        !.formaApuracao = r.formaApuracao,
                                        !.temRegimePisCofins = r.temRegimePisCofins,
                                        !.codigoIncidencia = r.codigoIncidencia] :
                        l1 \in SeqsAte(RegsContribuicao, MaxRegs),
                        l2 \in SeqsAte(RegsApuracao, MaxRegs), r \in Regimes}

                EntradasCOFINS ==
                    {[DadosVazio EXCEPT !.debCofins = l1, !.m600 = l2,
                                        !.formaApuracao = r.formaApuracao,
                                        !.temRegimePisCofins = r.temRegimePisCofins,
                                        !.codigoIncidencia = r.codigoIncidencia] :
                        l1 \in SeqsAte(RegsContribuicao, MaxRegs),
                        l2 \in SeqsAte(RegsApuracao, MaxRegs), r \in Regimes}

                EntradasICMS ==
                    {[DadosVazio EXCEPT !.debIcms = l1, !.e110 = l2, !.c190 = l3,
                                        !.uf = u, !.cfopsItens = c] :
                        l1 \in SeqsAte(RegsDebitoICMS, MaxRegs),
                        l2 \in SeqsAte(RegsApuracao, MaxRegs),
                        l3 \in SeqsAte(RegsC190, MaxRegs),
                        u \in {"", "BA"}, c \in {{}, {"5933"}}}

                EntradasIPI ==
                    {[DadosVazio EXCEPT !.impIpi = l1, !.debIpi = l2, !.cfopsItens = c] :
                        l1 \in SeqsAte(RegsImpostoIPI, MaxRegs),
                        l2 \in SeqsAte(RegsDebitoIPI, MaxRegs),
                        c \in {{}, {"5101"}}}

                EntradasISS ==
                    {[DadosVazio EXCEPT !.impIss = l1, !.recServ = l2, !.cfopsItens = c] :
                        l1 \in SeqsAte(RegsISS, MaxRegs),
                        l2 \in SeqsAte(RegsServico, MaxRegs),
                        c \in ConjuntosCFOP}
            IN
            CASE i = "pis" -> EntradasPIS
              [] i = "cofins" -> EntradasCOFINS
              [] i = "icms" -> EntradasICMS
              [] i = "ipi" -> EntradasIPI
              [] i = "iss" -> EntradasISS
    IN
    LET
        Faturamentos == {0, 20000}

        \* values of the variables a specification does not use
        EntradaNenhuma == [nulo |-> TRUE]

        SaidaNenhuma == [vazia |-> TRUE]
    IN
    /\ pc = "entrada"
    /\ imposto \in Impostos
    /\ dadosSped \in EntradasDe(imposto)
    /\ faturamento \in Faturamentos
    /\ debito = NaoDef
    /\ entrada = EntradaNenhuma
    /\ saida = SaidaNenhuma
    /\ escapou = FALSE
    /\ arquivos = ArquivosNenhum
    /\ importacao = ImportacaoParada
    /\ simulador = SimuladorVazio

CalcularDebitosPIS ==
    /\ pc = "entrada"
    /\ imposto = "pis"
    /\ debito' = calcularDebitosPIS(dadosSped, faturamento)
    /\ pc' = "resolvido"
    /\ UNCHANGED <<imposto, dadosSped, faturamento, entrada, saida, escapou,
                   arquivos, importacao, simulador>>

CalcularDebitosCOFINS ==
    /\ pc = "entrada"
    /\ imposto = "cofins"
    /\ debito' = calcularDebitosCOFINS(dadosSped, faturamento)
    /\ pc' = "resolvido"
    /\ UNCHANGED <<imposto, dadosSped, faturamento, entrada, saida, escapou,
                   arquivos, importacao, simulador>>

CalcularDebitosICMS ==
    /\ pc = "entrada"
    /\ imposto = "icms"
    /\ debito' = calcularDebitosICMS(dadosSped, faturamento)
    /\ pc' = "resolvido"
    /\ UNCHANGED <<imposto, dadosSped, faturamento, entrada, saida, escapou,
                   arquivos, importacao, simulador>>

CalcularDebitosIPI ==
    /\ pc = "entrada"
    /\ imposto = "ipi"
    /\ debito' = calcularDebitosIPI(dadosSped, faturamento)
    /\ pc' = "resolvido"
    /\ UNCHANGED <<imposto, dadosSped, faturamento, entrada, saida, escapou,
                   arquivos, importacao, simulador>>

CalcularDebitosISS ==
    /\ pc = "entrada"
    /\ imposto = "iss"
    /\ debito' = calcularDebitosISS(dadosSped, faturamento)
    /\ pc' = "resolvido"
    /\ UNCHANGED <<imposto, dadosSped, faturamento, entrada, saida, escapou,
                   arquivos, importacao, simulador>>

NextDebitos ==
    \/ CalcularDebitosPIS
    \/ CalcularDebitosCOFINS
    \/ CalcularDebitosICMS
    \/ CalcularDebitosIPI
    \/ CalcularDebitosISS

SpecDebitos == InitDebitos /\ [][NextDebitos]_vars

\* total of the first source of the debit chain of a tax
TotalFonte1(i, d) ==
    CASE i = "pis" -> TotalContribuicao(d.debPis)
      [] i = "cofins" -> TotalContribuicao(d.debCofins)
      [] i = "icms" -> TotalDebitosICMS(d.debIcms)
      [] i = "ipi" -> TotalImpostosIPI(d.impIpi)
      [] i = "iss" -> TotalISS(d.impIss)

\* C1 (as stated): for each of the five taxes, when the first source of the
\* debit chain yields a positive total, the resolved debit is that total.
C1_Original ==
    (pc = "resolvido" /\ TotalFonte1(imposto, dadosSped) > 0)
        => debito = TotalFonte1(imposto, dadosSped)

\* C1 (amended): for PIS, COFINS, ICMS and IPI, a positive total of the first
\* source is the resolved debit whatever the later sources hold; for ISS this
\* holds when the classified sector is services, and the debit is 0 otherwise.
C1_PrimeiraFontePrevalece ==
    (pc = "resolvido" /\ TotalFonte1(imposto, dadosSped) > 0)
        => IF imposto = "iss" /\ determinarTipoEmpresa(dadosSped) /= "servicos"
           THEN debito = 0
           ELSE debito = TotalFonte1(imposto, dadosSped)

\* a resolved PIS whose three sources all hold a different positive figure
C1_Witness ==
    /\ pc = "resolvido"
    /\ imposto = "pis"
    /\ TotalFonte1("pis", dadosSped) = 110
    /\ TotalApurado(dadosSped.m200) = 60
    /\ faturamento > 0
    /\ debito = 110

----------------------------------------------------------------------------
(* sped-extractor.js: top-level extraction (extrairDadosParaSimulador)      *)
(* An optional object or list is a sequence of length 0 (absent) or 1.      *)

Nenhum == <<>>
Algum(x) == <<x>>
Presente(o) == Len(o) = 1
Valor(o) == o[1]

\* dataEmissao of a document: absent, an 8-character text that is no date,
\* or a valid date counted in days
DataInvalida == -2

\* ' x.trim() !== "" ' together with the truthiness of x
NomePreenchido(x) == x /= "" /\ x /= " "

\* first filled name among nome, nomeEmpresarial, razaoSocial
NomeDe(e) ==
    IF NomePreenchido(e.nome) THEN e.nome
    ELSE IF NomePreenchido(e.nomeEmpresarial) THEN e.nomeEmpresarial
    ELSE IF NomePreenchido(e.razaoSocial) THEN e.razaoSocial
    ELSE ""

\* a name is kept as the sequence of its parts, so that the placeholder can
\* carry the cnpj
NomeFinal(nome, cnpj) ==
    LET
        \* "Empresa " + (cnpj ? "(CNPJ: cnpj)" : "Importada")
        NomeGenerico == IF cnpj /= "" THEN <<"Empresa (CNPJ: ", cnpj, ")">>
                        ELSE <<"Empresa Importada">>
    IN  IF NomePreenchido(nome) THEN <<nome>> ELSE NomeGenerico

\* the revenue sources read at lines 185-195 and 449-454
ReceitaContribuicoes(e) ==
    IF Presente(e.contribuicoes) THEN Valor(e.contribuicoes).receitaBrutaTotal ELSE NaoDef

SaidasFiscal(e) ==
    IF Presente(e.fiscal) THEN Valor(e.fiscal).valorTotalSaidas ELSE NaoDef

EmpresaPadrao ==
    [definido |-> FALSE, cnpj |-> "", nome |-> <<>>, faturamentoMensal |-> NaoDef,
     tipoEmpresa |-> "", regime |-> "", faturamento |-> NaoDef]

\* estimarFaturamentoPorImpostos: the first debit record of PIS (over 0.65%),
\* else of COFINS (over 3%), else of ICMS (over 18%); 0 when none is positive.
\* "debitos" is the root-level property of the dataset handed in.
estimarFaturamentoPorImpostos(debitos) ==
    LET Primeiro(lista) == IF Len(lista) > 0 THEN Ou(lista[1], 0) ELSE 0
    IN  IF ~Presente(debitos) THEN 0
        ELSE IF Primeiro(Valor(debitos).pis) > 0
        THEN (Primeiro(Valor(debitos).pis) * 10000) \div 65
        ELSE IF Primeiro(Valor(debitos).cofins) > 0
        THEN (Primeiro(Valor(debitos).cofins) * 100) \div 3
        ELSE IF Primeiro(Valor(debitos).icms) > 0
        THEN (Primeiro(Valor(debitos).icms) * 100) \div 18
        ELSE 0

\* extrairDadosEmpresa({fiscal, contribuicoes, ecf, empresa}); the object it
\* receives has no "documentos", so the document branch (line 455) is skipped
extrairDadosEmpresa(e) ==
    LET
        \* the dataset read by determinarTipoEmpresa(dadosSped.fiscal)
        VisaoFiscal(f) ==
            [DadosVazio EXCEPT !.impIpi = f.impIpi,
                               !.debIpi = IF Presente(f.debIpi)
                                          THEN [k \in DOMAIN Valor(f.debIpi) |->
                                                  [valorTotalDebitos |-> Valor(f.debIpi)[k],
                                                   valorTotalAPagar |-> NaoDef]]
                                          ELSE <<>>,
                               !.cfopsItens = f.cfopsItens]
    IN
    LET
        \* the root-level "debitos" of the object built at lines 173-178, which
        \* has the properties fiscal, contribuicoes, ecf and empresa only
        debitosDoArgumento == Nenhum
    IN
    LET base == [definido |-> TRUE, cnpj |-> "", nome |-> "", faturamentoMensal |-> 0,
                 tipoEmpresa |-> "comercio", regime |-> "presumido"]
        ident ==
            IF Presente(e.empresa)
            THEN LET x == Valor(e.empresa)
                 IN  [base EXCEPT !.cnpj = x.cnpj, !.nome = NomeDe(x),
                                  !.tipoEmpresa = IF x.tipoEmpresa /= "" THEN x.tipoEmpresa
                                                  ELSE base.tipoEmpresa]
            ELSE IF Presente(e.fiscal) /\ Presente(Valor(e.fiscal).empresa)
            THEN LET x == Valor(Valor(e.fiscal).empresa)
                 IN  [base EXCEPT !.cnpj = x.cnpj, !.nome = NomeDe(x),
                                  !.tipoEmpresa = determinarTipoEmpresa(VisaoFiscal(Valor(e.fiscal)))]
            ELSE IF Presente(e.contribuicoes) /\ Presente(Valor(e.contribuicoes).empresa)
            THEN LET x == Valor(Valor(e.contribuicoes).empresa)
                     codigo == Valor(e.contribuicoes).codigoIncidencia
                 IN  [base EXCEPT !.cnpj = x.cnpj, !.nome = NomeDe(x),
                                  !.regime = IF codigo \in {"1", "3"} THEN "real"
                                             ELSE IF codigo = "2" THEN "presumido"
                                             ELSE base.regime]
            ELSE base
        fat == IF ReceitaContribuicoes(e) > 0 THEN ReceitaContribuicoes(e)
               ELSE IF SaidasFiscal(e) > 0 THEN SaidasFiscal(e)
               ELSE IF e.receitaLiquidaEcf > 0 THEN e.receitaLiquidaEcf
               ELSE estimarFaturamentoPorImpostos(debitosDoArgumento)
    IN  [definido |-> TRUE, cnpj |-> ident.cnpj,
         nome |-> NomeFinal(ident.nome, ident.cnpj),
         faturamentoMensal |-> fat,
         tipoEmpresa |-> ident.tipoEmpresa, regime |-> ident.regime,
         faturamento |-> NaoDef]

\* calcularFaturamentoPorDocumentos --------------------------------------

\* doc.indOper === '1' && (situacao === '00' || !situacao) && valorTotal > 0
DocumentosSaida(docs) == SelectSeq(docs, LAMBDA d : d.saida /\ d.valorTotal > 0)

\* the comparison with an Invalid Date is always false, so the first dated
\* document decides whether dataInicial is invalid; toISOString() (line 547)
\* then raises RangeError
LancaDataInvalida(docs) ==
    LET
        Datados(lista) == SelectSeq(lista, LAMBDA d : d.dataEmissao /= NaoDef)
        ds == Datados(DocumentosSaida(docs))
    IN  Len(ds) > 0 /\ ds[1].dataEmissao = DataInvalida

\* Math.max(1, Math.round(diffDays / 30))
MesesPeriodo(docs) ==
    LET
        DiasValidos(lista) ==
            {d.dataEmissao : d \in {lista[k] : k \in DOMAIN lista}} \ {NaoDef, DataInvalida}

        MenorDe(S) == CHOOSE x \in S : \A y \in S : x <= y

        MaiorDe(S) == CHOOSE x \in S : \A y \in S : x >= y

        dias == DiasValidos(DocumentosSaida(docs))
    IN  IF dias = {} THEN 1
        ELSE Max2(1, ((MaiorDe(dias) - MenorDe(dias)) + 15) \div 30)

faturamentoPorDocumentos(docs) ==
    LET saidas == DocumentosSaida(docs)
    IN  IF Len(saidas) = 0 THEN 0
        ELSE Soma([k \in DOMAIN saidas |-> ValorValidado(saidas[k].valorTotal)])
                \div MesesPeriodo(docs)

\* calcularParametrosFiscais ---------------------------------------------

\* { valor, fonte } as built by criarValorComFonte; the defaults of the
\* initial structure are bare numbers, which carry no provenance
criarValorComFonte(valor, fonte) == [valor |-> valor, fonte |-> fonte]

SemChaves == [k \in {} |-> 0]

\* obj[k] = v
Definir(obj, k, v) == [x \in (DOMAIN obj) \cup {k} |-> IF x = k THEN v ELSE obj[x]]

ComposicaoPadrao ==
    [debitos |-> [i \in Impostos |-> criarValorComFonte(0, SemFonte)],
     creditos |-> [i \in Impostos |-> criarValorComFonte(0, SemFonte)],
     aliquotasEfetivas |-> SemChaves,
     fontesDados |-> SemChaves]

\* sum + parseValorMonetario(d.valorTotalContribuicao || d.valorContribuicaoAPagar || 0)
TotalDebitoContribuicao(regs) ==
    Soma([k \in DOMAIN regs |->
            Ou(regs[k].valorTotalContribuicao, Ou(regs[k].valorContribuicaoAPagar, 0))])

\* sum + parseValorMonetario(x.valorCredito || 0), and the same for
\* d.valorTotalDebitos
TotalCampo(regs) == Soma([k \in DOMAIN regs |-> Ou(regs[k], 0)])

Lista(o, campo) == IF Presente(o) THEN Valor(o)[campo] ELSE Nenhum

\* one ledger list of the dataset: when the property exists (an empty list
\* included) its total is recorded with provenance 'sped'
Lancar(comp, lado, tributo, lista, total) ==
    IF ~Presente(lista) THEN comp
    ELSE LET chave == IF lado = "debitos" THEN tributo \o "_debito" ELSE tributo \o "_credito"
         IN  [comp EXCEPT
                ![lado] = Definir(@, tributo, criarValorComFonte(total, FonteSPED)),
                !.fontesDados = Definir(@, chave, FonteSPED)]

\* lines 2864-2943
ComposicaoDoLivro(f, c) ==
    LET
        ComposicaoVazia ==
            [debitos |-> SemChaves, creditos |-> SemChaves,
             aliquotasEfetivas |-> SemChaves, fontesDados |-> SemChaves]
    IN
    LET dp == Lista(c, "debPis")
        cp == Lista(c, "credPis")
        dc == Lista(c, "debCofins")
        cc == Lista(c, "credCofins")
        di == Lista(f, "debIcms")
        ci == Lista(f, "credIcms")
        dx == Lista(f, "debIpi")
        c1 == Lancar(ComposicaoVazia, "debitos", "pis", dp,
                     IF Presente(dp) THEN TotalDebitoContribuicao(Valor(dp)) ELSE 0)
        c2 == Lancar(c1, "creditos", "pis", cp, IF Presente(cp) THEN TotalCampo(Valor(cp)) ELSE 0)
        c3 == Lancar(c2, "debitos", "cofins", dc,
                     IF Presente(dc) THEN TotalDebitoContribuicao(Valor(dc)) ELSE 0)
        c4 == Lancar(c3, "creditos", "cofins", cc, IF Presente(cc) THEN TotalCampo(Valor(cc)) ELSE 0)
        c5 == Lancar(c4, "debitos", "icms", di, IF Presente(di) THEN TotalCampo(Valor(di)) ELSE 0)
        c6 == Lancar(c5, "creditos", "icms", ci, IF Presente(ci) THEN TotalCampo(Valor(ci)) ELSE 0)
    IN  Lancar(c6, "debitos", "ipi", dx, IF Presente(dx) THEN TotalCampo(Valor(dx)) ELSE 0)

\* extrairValorNumerico of a possibly absent entry
ValorNumerico(lado, tributo) ==
    IF tributo \in DOMAIN lado THEN lado[tributo].valor ELSE 0

estimarValoresAusentes(comp) ==
    LET e1 == IF "cofins" \notin DOMAIN comp.debitos /\ "pis" \in DOMAIN comp.debitos
              THEN [comp EXCEPT
                      !.debitos = Definir(@, "cofins",
                          criarValorComFonte((comp.debitos["pis"].valor * 760) \div 165,
                                             FonteESTIMADO)),
                      !.fontesDados = Definir(@, "cofins_debito", FonteESTIMADO)]
              ELSE comp
        e2 == IF "pis" \notin DOMAIN e1.debitos /\ "cofins" \in DOMAIN e1.debitos
              THEN [e1 EXCEPT
                      !.debitos = Definir(@, "pis",
                          criarValorComFonte((e1.debitos["cofins"].valor * 165) \div 760,
                                             FonteESTIMADO)),
                      !.fontesDados = Definir(@, "pis_debito", FonteESTIMADO)]
              ELSE e1
        pc2 == ValorNumerico(e2.debitos, "pis") + ValorNumerico(e2.debitos, "cofins")
    IN  IF "icms" \notin DOMAIN e2.debitos /\ pc2 > 0
        THEN [e2 EXCEPT
                !.debitos = Definir(@, "icms",
                    criarValorComFonte((pc2 * 35) \div 10, FonteESTIMADO)),
                !.fontesDados = Definir(@, "icms_debito", FonteESTIMADO)]
        ELSE e2

\* The rate block (lines 2949-3002) reads "faturamentoMensal" and
\* "composicaoTributaria"; the raise is caught at line 3009, which returns
\* the structure as the ledger steps left it, before estimarValoresAusentes
\* (line 3005) is called.
calcularParametrosFiscais(f, c) ==
    LET
        \* reading a name that is not bound raises ReferenceError
        LancaReferenceError(nome) ==
            LET
                \* the names bound where line 2949 is evaluated: the two parameters, the
                \* local "parametros" and the module-level functions and constants
                EscopoCalcularParametrosFiscais ==
                    {"spedFiscal", "spedContribuicoes", "parametros", "FonteDados",
                     "parseValorMonetario", "criarValorComFonte", "estimarValoresAusentes"}
            IN  nome \notin EscopoCalcularParametrosFiscais
    IN
    IF LancaReferenceError("faturamentoMensal")
    THEN ComposicaoDoLivro(f, c)
    ELSE estimarValoresAusentes(ComposicaoDoLivro(f, c))

\* validarDadosExtraidos and extrairDadosParaSimulador --------------------

validarDadosExtraidos(emp, comp) ==
    LET
        \* Object.values(debitos).reduce((sum, val) => sum + (val || 0), 0) <= 0 :
        \* a { valor, fonte } object turns the sum into text, which is not <= 0;
        \* the bare defaults add up to 0
        SemDebitos ==
            \A k \in DOMAIN comp.debitos :
                comp.debitos[k].fonte = SemFonte /\ comp.debitos[k].valor <= 0

        NomesCurtos == {"", " ", "AB"}

        \* !nome || nome.length <= 2
        NomeInvalido(nome) ==
            nome = <<>> \/ (Len(nome) = 1 /\ nome[1] \in NomesCurtos)
    IN
    (IF NomeInvalido(emp.nome) THEN <<"Nome da empresa nao encontrado ou invalido">> ELSE <<>>)
    \o (IF emp.faturamento <= 0
        THEN <<"Faturamento da empresa nao encontrado ou zero">> ELSE <<>>)
    \o (IF SemDebitos THEN <<"Nenhum debito tributario encontrado">> ELSE <<>>)

AliquotasPadrao == [i \in Impostos |-> 0]

\* the structure built at lines 128-168
DadosPadrao ==
    [empresa |-> EmpresaPadrao,
     composicao |-> ComposicaoPadrao,
     aliquotasEfetivas |-> AliquotasPadrao,
     inconsistencias |-> <<>>,
     confiabilidade |-> "alta"]

MensagemNulo == "Erro ao processar dados: Cannot read properties of null"
MensagemIndefinido == "Erro ao processar dados: Cannot read properties of undefined"
MensagemData == "Erro ao processar dados: Invalid time value"

\* the body of the try (lines 171-232): what it raised, if anything, and
\* "dados" as it stood at that point
\* the chain with the fiscal totalizer tried before the contributions
\* declaration
faturamentoMensal_FiscalPrimeiro(e) ==
    IF SaidasFiscal(e) > 0 THEN SaidasFiscal(e)
    ELSE IF ReceitaContribuicoes(e) > 0 THEN ReceitaContribuicoes(e)
    ELSE IF e.receitaLiquidaEcf > 0 THEN e.receitaLiquidaEcf
    ELSE IF Len(e.documentos) > 0 THEN faturamentoPorDocumentos(e.documentos)
    ELSE 0

\* the local faturamentoMensal of extrairDadosParaSimulador (lines 182-200),
\* when the documents branch does not raise
faturamentoMensal(e) ==
    IF ReceitaContribuicoes(e) > 0 THEN ReceitaContribuicoes(e)
    ELSE IF SaidasFiscal(e) > 0 THEN SaidasFiscal(e)
    ELSE IF e.receitaLiquidaEcf > 0 THEN e.receitaLiquidaEcf
    ELSE IF Len(e.documentos) > 0 THEN faturamentoPorDocumentos(e.documentos)
    ELSE 0

TentarExtrair(e) ==
    LET
        TemEmpresa ==
            \/ Presente(e.fiscal) /\ Presente(Valor(e.fiscal).empresa)
            \/ Presente(e.contribuicoes) /\ Presente(Valor(e.contribuicoes).empresa)
            \/ Presente(e.empresa)
    IN
    IF e.nulo /= "objeto"
    THEN [lancou |-> TRUE,
          mensagem |-> IF e.nulo = "null" THEN MensagemNulo ELSE MensagemIndefinido,
          dados |-> DadosPadrao]
    ELSE
    LET emp == IF TemEmpresa THEN extrairDadosEmpresa(e) ELSE EmpresaPadrao
        d1 == [DadosPadrao EXCEPT !.empresa = emp]
        porDocumentos == /\ ~(ReceitaContribuicoes(e) > 0)
                         /\ ~(SaidasFiscal(e) > 0)
                         /\ ~(e.receitaLiquidaEcf > 0)
                         /\ Len(e.documentos) > 0
    IN  IF porDocumentos /\ LancaDataInvalida(e.documentos)
        THEN [lancou |-> TRUE, mensagem |-> MensagemData, dados |-> d1]
        ELSE
        LET fat == faturamentoMensal(e)
            emp2 == [emp EXCEPT !.faturamento = fat]
            comp == IF Presente(e.fiscal) \/ Presente(e.contribuicoes)
                    THEN calcularParametrosFiscais(e.fiscal, e.contribuicoes)
                    ELSE ComposicaoPadrao
            problemas == validarDadosExtraidos(emp2, comp)
        IN  [lancou |-> FALSE, mensagem |-> "",
             dados |-> [empresa |-> emp2,
                        composicao |-> comp,
                        aliquotasEfetivas |-> AliquotasPadrao,
                        inconsistencias |-> problemas,
                        confiabilidade |-> IF Len(problemas) = 0 THEN "alta"
                                           ELSE IF Len(problemas) > 3 THEN "baixa"
                                           ELSE "media"]]

\* without the catch of line 233 the raise leaves the function
extrairDadosParaSimulador_SemCatch(e) ==
    LET t == TentarExtrair(e)
    IN  [escapou |-> t.lancou, dados |-> t.dados]

\* { ...dados, validacao: { inconsistencias: [mensagem], confiabilidade: 'baixa' } }
extrairDadosParaSimulador(e) ==
    LET t == TentarExtrair(e)
    IN  IF t.lancou
        THEN [escapou |-> FALSE,
              dados |-> [t.dados EXCEPT !.inconsistencias = <<t.mensagem>>,
                                        !.confiabilidade = "baixa"]]
        ELSE [escapou |-> FALSE, dados |-> t.dados]

\* Steps 5 and 6 of the try (extrairCicloFinanceiro, determinarSetorIVA) catch
\* their own raises and write only cicloFinanceiro and ivaConfig, sections
\* the state below does not carry.

----------------------------------------------------------------------------
(* Extraction specification: extrairDadosParaSimulador on one dataset       *)

MaxDocs == 2

FiscalVazio ==
    [empresa |-> Nenhum, valorTotalSaidas |-> NaoDef, debIcms |-> Nenhum,
     credIcms |-> Nenhum, debIpi |-> Nenhum, credIpi |-> Nenhum,
     impIpi |-> <<>>, cfopsItens |-> {}]

ContribuicoesVazio ==
    [empresa |-> Nenhum, receitaBrutaTotal |-> NaoDef, codigoIncidencia |-> "",
     debPis |-> Nenhum, credPis |-> Nenhum, debCofins |-> Nenhum, credCofins |-> Nenhum]

EntradaVazia ==
    [nulo |-> "objeto", empresa |-> Nenhum, fiscal |-> Nenhum, contribuicoes |-> Nenhum,
     receitaLiquidaEcf |-> NaoDef, documentos |-> <<>>, debitos |-> Nenhum]

InitExtracao ==
    LET
        Entradas ==
            LET
                Identidades ==
                    [nome : {"", "ACME"}, nomeEmpresarial : {""}, razaoSocial : {""},
                     cnpj : {"", "12345678000199"}, tipoEmpresa : {""}]

                EmpresasDiretas ==
                    {Nenhum,
                     Algum([nome |-> "ACME", nomeEmpresarial |-> "", razaoSocial |-> "",
                            cnpj |-> "12345678000199", tipoEmpresa |-> ""]),
                     Algum([nome |-> "", nomeEmpresarial |-> "", razaoSocial |-> "",
                            cnpj |-> "", tipoEmpresa |-> "servicos"])}

                OpcLista(S, n) == {Nenhum} \cup {Algum(l) : l \in SeqsAte(S, n)}

                RegsDebitoContribuicao ==
                    {[valorTotalContribuicao |-> 1650, valorContribuicaoAPagar |-> NaoDef],
                     [valorTotalContribuicao |-> 0, valorContribuicaoAPagar |-> 330]}

                EntradasNulas == {[EntradaVazia EXCEPT !.nulo = n] : n \in {"null", "undefined"}}

                EntradasContribuicoes ==
                    {[EntradaVazia EXCEPT
                        !.empresa = emp,
                        !.contribuicoes = Algum([ContribuicoesVazio EXCEPT
                            !.empresa = ce, !.receitaBrutaTotal = rb, !.codigoIncidencia = ci,
                            !.debPis = dp, !.credPis = cp, !.debCofins = dc])] :
                        emp \in EmpresasDiretas,
                        ce \in {Nenhum, Algum([nome |-> "", nomeEmpresarial |-> "ACME", razaoSocial |-> "",
                                               cnpj |-> "", tipoEmpresa |-> ""])},
                        rb \in {NaoDef, 1000, 100000}, ci \in {"", "1"},
                        dp \in OpcLista(RegsDebitoContribuicao, MaxRegs),
                        cp \in {Nenhum, Algum(<<>>), Algum(<<150>>)},
                        dc \in {Nenhum, Algum(<<>>),
                                Algum(<<[valorTotalContribuicao |-> 7600, valorContribuicaoAPagar |-> NaoDef]>>)}}

                EntradasFiscal ==
                    {[EntradaVazia EXCEPT
                        !.empresa = emp,
                        !.fiscal = Algum([FiscalVazio EXCEPT
                            !.empresa = fe, !.valorTotalSaidas = vs, !.debIcms = di, !.credIcms = ci,
                            !.debIpi = dx, !.credIpi = cx, !.impIpi = ii, !.cfopsItens = cf])] :
                        emp \in EmpresasDiretas,
                        fe \in {Nenhum} \cup {Algum(x) : x \in Identidades},
                        vs \in {NaoDef, 50000},
                        di \in {Nenhum, Algum(<<9000>>)},
                        ci \in {Nenhum, Algum(<<2000>>)},
                        dx \in OpcLista({500}, MaxRegs),
                        cx \in {Nenhum, Algum(<<100>>)},
                        ii \in {<<>>, <<60>>},
                        cf \in {{}, {"5933"}, {"5101"}}}

                Documentos ==
                    [saida : BOOLEAN, valorTotal : {0, 500}, dataEmissao : {NaoDef, DataInvalida, 0, 45}]

                EntradasDocumentos ==
                    {[EntradaVazia EXCEPT !.empresa = emp, !.receitaLiquidaEcf = rl, !.documentos = docs] :
                        emp \in EmpresasDiretas, rl \in {NaoDef, 0, 30000},
                        docs \in SeqsAte(Documentos, MaxDocs)}

                \* datasets in which several revenue sources are present at once
                DocumentosReceita ==
                    {[saida |-> TRUE, valorTotal |-> 500, dataEmissao |-> 0],
                     [saida |-> TRUE, valorTotal |-> 500, dataEmissao |-> DataInvalida],
                     [saida |-> FALSE, valorTotal |-> 500, dataEmissao |-> 0]}

                EntradasReceita ==
                    {[EntradaVazia EXCEPT
                        !.contribuicoes = Algum([ContribuicoesVazio EXCEPT !.receitaBrutaTotal = rb]),
                        !.fiscal = Algum([FiscalVazio EXCEPT !.valorTotalSaidas = vs]),
                        !.receitaLiquidaEcf = rl,
                        !.documentos = docs] :
                        rb \in {NaoDef, 0, 1000}, vs \in {NaoDef, 0, 50000}, rl \in {NaoDef, 0, 30000},
                        docs \in SeqsAte(DocumentosReceita, MaxDocs)}

                \* datasets with root-level debit lists and no positive revenue source
                SemDebitosRaiz == [pis |-> <<>>, cofins |-> <<>>, icms |-> <<>>]

                EntradasDebitos ==
                    {[EntradaVazia EXCEPT !.empresa = emp, !.receitaLiquidaEcf = rl,
                                          !.documentos = docs, !.debitos = Algum(deb)] :
                        emp \in EmpresasDiretas, rl \in {NaoDef, 0},
                        docs \in {<<>>, <<[saida |-> FALSE, valorTotal |-> 500, dataEmissao |-> 0]>>},
                        deb \in {SemDebitosRaiz,
                                 [SemDebitosRaiz EXCEPT !.pis = <<650>>],
                                 [SemDebitosRaiz EXCEPT !.pis = <<0>>, !.cofins = <<3000, 1>>],
                                 [SemDebitosRaiz EXCEPT !.icms = <<18000>>]}}
            IN
            EntradasNulas \cup EntradasContribuicoes \cup EntradasFiscal \cup EntradasDocumentos
                \cup EntradasReceita \cup EntradasDebitos
    IN
    /\ pc = "dados"
    /\ entrada \in Entradas
    /\ imposto = "pis"
    /\ dadosSped = DadosVazio
    /\ faturamento = 0
    /\ debito = NaoDef
    /\ saida = DadosPadrao
    /\ escapou = FALSE
    /\ arquivos = ArquivosNenhum
    /\ importacao = ImportacaoParada
    /\ simulador = SimuladorVazio

ExtrairDadosParaSimulador ==
    /\ pc = "dados"
    /\ saida' = extrairDadosParaSimulador(entrada).dados
    /\ escapou' = extrairDadosParaSimulador(entrada).escapou
    /\ pc' = "extraido"
    /\ UNCHANGED <<imposto, dadosSped, faturamento, debito, entrada,
                   arquivos, importacao, simulador>>

SpecExtracao == InitExtracao /\ [][ExtrairDadosParaSimulador]_vars

----------------------------------------------------------------------------
(* Properties of the extraction                                             *)

Extraido == pc = "extraido"

\* Math.max(0, debito - credito) over the output
ImpostoLiquido(s, i) ==
    Max2(0, ValorNumerico(s.composicao.debitos, i) - ValorNumerico(s.composicao.creditos, i))

\* the rate the output reports for a tax, in hundredths of a percent:
\* composicaoTributaria.aliquotasEfetivas[i] when it exists, otherwise
\* parametrosFiscais.aliquotasEfetivas (pisEfetivo, ...)
AliquotaReportada(s, i) ==
    IF i \in DOMAIN s.composicao.aliquotasEfetivas
    THEN s.composicao.aliquotasEfetivas[i]
    ELSE s.aliquotasEfetivas[i]

FonteDe(lado, i) == IF i \in DOMAIN lado THEN lado[i].fonte ELSE SemFonte

\* the ledger list of the input that holds the direct records of a tax
LivroDe(e, lado, i) ==
    CASE lado = "debitos" /\ i = "pis" -> Lista(e.contribuicoes, "debPis")
      [] lado = "debitos" /\ i = "cofins" -> Lista(e.contribuicoes, "debCofins")
      [] lado = "debitos" /\ i = "icms" -> Lista(e.fiscal, "debIcms")
      [] lado = "debitos" /\ i = "ipi" -> Lista(e.fiscal, "debIpi")
      [] lado = "creditos" /\ i = "pis" -> Lista(e.contribuicoes, "credPis")
      [] lado = "creditos" /\ i = "cofins" -> Lista(e.contribuicoes, "credCofins")
      [] lado = "creditos" /\ i = "icms" -> Lista(e.fiscal, "credIcms")
      [] lado = "creditos" /\ i = "ipi" -> Lista(e.fiscal, "credIpi")
      [] OTHER -> Nenhum

TemRegistro(e, lado, i) ==
    Presente(LivroDe(e, lado, i)) /\ Len(Valor(LivroDe(e, lado, i))) > 0

\* C3 (as stated): with PIS ledger debits and no COFINS debit data, the
\* output's COFINS debit is the PIS debit times 7.6/1.65 and is tagged
\* 'calculado' (derived).
C3_Original ==
    (Extraido /\ entrada.nulo = "objeto"
       /\ TemRegistro(entrada, "debitos", "pis")
       /\ ~Presente(LivroDe(entrada, "debitos", "cofins")))
    => /\ "cofins" \in DOMAIN saida.composicao.debitos
       /\ saida.composicao.debitos["cofins"].fonte = FonteCALCULADO
       /\ saida.composicao.debitos["cofins"].valor =
             (ValorNumerico(saida.composicao.debitos, "pis") * 760) \div 165

\* C4 (as stated): a debit or credit for which the input holds at least one
\* direct ledger record is tagged 'sped' in the output.
C4_Original ==
    (Extraido /\ entrada.nulo = "objeto")
    => \A lado \in {"debitos", "creditos"}, i \in Impostos :
          TemRegistro(entrada, lado, i) => FonteDe(saida.composicao[lado], i) = FonteSPED

\* C5 (as stated): in every output each debit and each credit of the five
\* taxes carries a tag that is one of sped, estimado, calculado.  (The rates
\* of the output are bare numbers and have no tag field at all.)
C5_Original ==
    LET
        FontesValidas == {FonteSPED, FonteESTIMADO, FonteCALCULADO}
    IN
    Extraido
    => \A lado \in {"debitos", "creditos"}, i \in Impostos :
          FonteDe(saida.composicao[lado], i) \in FontesValidas

\* C6 (as stated): when the net burden of a tax exceeds the revenue, the
\* rate reported for that tax is its statutory default.
C6_Original ==
    LET
        \* statutory defaults of the rate block, in hundredths of a percent
        \* (0.65, 3.0, 18.0, otherwise 0.0)
        aliquotaPadrao(i) ==
            CASE i = "pis" -> 65
              [] i = "cofins" -> 300
              [] i = "icms" -> 1800
              [] OTHER -> 0
    IN
    Extraido
    => \A i \in Impostos :
          (saida.empresa.faturamento > 0
             /\ ImpostoLiquido(saida, i) > saida.empresa.faturamento)
          => AliquotaReportada(saida, i) = aliquotaPadrao(i)

\* C7 (as stated): with positive revenue and resolved fiscal parameters the
\* output reports a total effective rate, equal to the sum of the net
\* burdens over revenue when that is within range.
C7_Original ==
    (Extraido /\ entrada.nulo = "objeto" /\ saida.empresa.faturamento > 0
       /\ (Presente(entrada.fiscal) \/ Presente(entrada.contribuicoes)))
    => LET total == Soma([k \in 1..5 |->
                            ImpostoLiquido(saida, <<"pis", "cofins", "icms", "ipi", "iss">>[k])])
           taxa == (total * 10000) \div saida.empresa.faturamento
       IN  /\ "total" \in DOMAIN saida.composicao.aliquotasEfetivas
           /\ taxa <= 10000 => saida.composicao.aliquotasEfetivas["total"] = taxa

\* C8 (as stated): the IPI debit of the output is zero whenever the sector of
\* the output's company profile is commerce or services, not industry.
C8_Original ==
    (Extraido /\ saida.empresa.tipoEmpresa \in {"comercio", "servicos"})
    => ValorNumerico(saida.composicao.debitos, "ipi") = 0

\* the inputs on which a raise reaches the handler of line 233: null or
\* undefined (line 172), or a document list consulted for revenue whose first
\* dated outbound document carries a text that is no date (line 547)
LancaNoTopo(e) ==
    \/ e.nulo /= "objeto"
    \/ /\ ReceitaContribuicoes(e) <= 0 /\ SaidasFiscal(e) <= 0 /\ e.receitaLiquidaEcf <= 0
       /\ LancaDataInvalida(e.documentos)

MensagensDeErro == {MensagemNulo, MensagemIndefinido, MensagemData}

----------------------------------------------------------------------------
(* SpedParser: decoding the lines of one file and aggregating them          *)

\* the record codes of registrosMapeados[tipo] that the model's lines use
registrosMapeados(tipo) ==
    CASE tipo = "fiscal" -> {"0000", "C100"}
      [] tipo = "contribuicoes" ->
            {"0000", "0110", "A100", "C100", "M100", "M110", "M200", "M400", "M500"}
      [] OTHER -> {"0000"}

\* the minimum of validarEstruturaRegistro in each decoder (the fiscal C100
\* decoder checks nothing)
MinimoCampos(tipo, registro) ==
    CASE registro = "0000" -> IF tipo = "ecf" THEN 11 ELSE 15
      [] registro = "0110" -> 4
      [] registro = "A100" -> 6
      [] registro \in {"M100", "M500"} -> 8
      [] registro = "M110" -> 7
      [] registro = "M400" -> 5
      [] registro = "M200" -> 14
      [] registro = "C100" -> IF tipo = "contribuicoes" THEN 18 ELSE 0
      [] OTHER -> 0

\* a line of a file: "branca" for a line that trims to the empty string,
\* "campos" for the number of pieces split('|') gives
LinhaVazia ==
    [registro |-> "", campos |-> 0, nome |-> "", valor |-> 0, saida |-> FALSE,
     dataEmissao |-> NaoDef, branca |-> FALSE]

\* the decoder of a mapped line: Nenhum for "return null"
Decodificar(tipo, l) ==
    IF l.campos < MinimoCampos(tipo, l.registro) THEN Nenhum
    ELSE CASE l.registro = "0000" ->
                Algum([tipo |-> "empresa", categoria |-> "", nome |-> l.nome,
                       valor |-> 0, saida |-> FALSE, dataEmissao |-> NaoDef])
           [] l.registro = "A100" ->
                Algum([tipo |-> "receita", categoria |-> "operacao", nome |-> "",
                       valor |-> l.valor, saida |-> FALSE, dataEmissao |-> NaoDef])
           [] l.registro = "M200" ->
                Algum([tipo |-> "debito", categoria |-> "pis", nome |-> "",
                       valor |-> l.valor, saida |-> FALSE, dataEmissao |-> NaoDef])
           [] l.registro \in {"0110", "M100", "M110", "M400", "M500"} ->
                Algum([tipo |-> CASE l.registro = "0110" -> "regime"
                                  [] l.registro = "M110" -> "ajuste"
                                  [] l.registro = "M400" -> "receita_nao_tributada"
                                  [] OTHER -> "credito",
                       categoria |-> CASE l.registro = "0110" -> "pis_cofins"
                                       [] l.registro = "M500" -> "cofins"
                                       [] OTHER -> "pis",
                       nome |-> "", valor |-> l.valor, saida |-> FALSE,
                       dataEmissao |-> NaoDef])
           [] OTHER ->
                Algum([tipo |-> "documento", categoria |-> "", nome |-> "",
                       valor |-> IF l.campos > 12 THEN l.valor ELSE 0,
                       saida |-> l.campos > 2 /\ l.saida,
                       dataEmissao |-> IF l.campos > 10 THEN l.dataEmissao
                                       ELSE NaoDef])

EmpresaVazia == [nome |-> "", chaves |-> 0]

ResultadoVazio(tipo) ==
    [tipo |-> tipo, empresa |-> EmpresaVazia, documentos |-> <<>>,
     debitosPis |-> <<>>, detalhamentoReceita |-> <<>>,
     creditos |-> SemChaves, regimes |-> SemChaves, ajustes |-> SemChaves,
     receitasNaoTributadas |-> SemChaves,
     registrosProcessados |-> 0, registrosIgnorados |-> 0, erros |-> <<>>]

\* a category key that holds one record: each record replaces the one before
AcrescentarNaCategoria_Substitui(mapa, reg) == Definir(mapa, reg.categoria, <<reg>>)

\* the list under the record's category key is created when missing and the
\* record is pushed to it; a record without category is dropped
AcrescentarNaCategoria(mapa, reg) ==
    IF reg.categoria = "" THEN mapa
    ELSE Definir(mapa, reg.categoria,
                 Append(IF reg.categoria \in DOMAIN mapa THEN mapa[reg.categoria]
                        ELSE <<>>, reg))

integrarDados(resultado, reg) ==
    LET
        \* number of properties of the object the 0000 decoder of each type returns
        ChavesEmpresa(tipo) ==
            CASE tipo = "fiscal" -> 16
              [] tipo = "contribuicoes" -> 9
              [] tipo = "ecf" -> 9
              [] OTHER -> 7
    IN
    CASE reg.tipo = "empresa" ->
            [resultado EXCEPT !.empresa = [nome |-> reg.nome,
                                           chaves |-> ChavesEmpresa(resultado.tipo)]]
      [] reg.tipo = "documento" ->
            [resultado EXCEPT !.documentos =
                Append(@, [saida |-> reg.saida, valorTotal |-> reg.valor,
                           dataEmissao |-> reg.dataEmissao])]
      [] reg.tipo = "debito" ->
            [resultado EXCEPT !.debitosPis =
                Append(@, [valorTotalContribuicao |-> reg.valor,
                           valorContribuicaoAPagar |-> 0])]
      [] reg.tipo = "credito" ->
            [resultado EXCEPT !.creditos = AcrescentarNaCategoria(@, reg)]
      [] reg.tipo = "regime" ->
            [resultado EXCEPT !.regimes = IF reg.categoria = "" THEN @
                                          ELSE Definir(@, reg.categoria, reg)]
      [] reg.tipo = "ajuste" ->
            [resultado EXCEPT !.ajustes = AcrescentarNaCategoria(@, reg)]
      [] reg.tipo = "receita_nao_tributada" ->
            [resultado EXCEPT !.receitasNaoTributadas = AcrescentarNaCategoria(@, reg)]
      [] OTHER ->
            [resultado EXCEPT !.detalhamentoReceita = Append(@, reg.valor)]

\* the call of line 451 raises: the value read from the table is truthy
\* and is no function
Lanca(l) ==
    LET
        \* record codes that are no key of the dispatch table and still read as a
        \* truthy value from it, the table being a plain object: the value is no
        \* function, so that calling it raises a TypeError
        PropriedadesHerdadas == {"__proto__"}
    IN  ~l.branca /\ l.campos >= 2 /\ l.registro \in PropriedadesHerdadas

\* the loop body without its catch blocks: a raise leaves the loop
ProcessarLinha_SemCatch(resultado, l, n) ==
    IF l.branca THEN [resultado |-> resultado, propagou |-> FALSE]
    ELSE IF l.campos < 2
    THEN [resultado |-> [resultado EXCEPT !.registrosIgnorados = @ + 1],
          propagou |-> FALSE]
    ELSE IF Lanca(l)
    THEN [resultado |-> resultado, propagou |-> TRUE]
    ELSE IF l.registro \in registrosMapeados(resultado.tipo)
    THEN LET d == Decodificar(resultado.tipo, l)
         IN  IF Presente(d)
             THEN [resultado |-> [integrarDados(resultado, Valor(d))
                                    EXCEPT !.registrosProcessados = @ + 1],
                   propagou |-> FALSE]
             ELSE [resultado |-> resultado, propagou |-> FALSE]
    ELSE [resultado |-> [resultado EXCEPT !.registrosIgnorados = @ + 1],
          propagou |-> FALSE]

\* one pass of the loop of extrairDados over line number n: the result so
\* far, and whether an exception leaves the loop body
ProcessarLinha(resultado, l, n) ==
    LET
        \* the entry pushed by the catch of line 458: the message names the record
        \* code and the line number
        MensagemErroRegistro == [registro |-> l.registro, linha |-> n]
    IN
    IF l.branca THEN [resultado |-> resultado, propagou |-> FALSE]
    ELSE IF l.campos < 2
    THEN [resultado |-> [resultado EXCEPT !.registrosIgnorados = @ + 1],
          propagou |-> FALSE]
    ELSE IF Lanca(l)
    THEN [resultado |-> [resultado EXCEPT
                            !.erros = Append(@, MensagemErroRegistro)],
          propagou |-> FALSE]
    ELSE IF l.registro \in registrosMapeados(resultado.tipo)
    THEN LET d == Decodificar(resultado.tipo, l)
         IN  IF Presente(d)
             THEN [resultado |-> [integrarDados(resultado, Valor(d))
                                    EXCEPT !.registrosProcessados = @ + 1],
                   propagou |-> FALSE]
             ELSE [resultado |-> resultado, propagou |-> FALSE]
    ELSE [resultado |-> [resultado EXCEPT !.registrosIgnorados = @ + 1],
          propagou |-> FALSE]

RECURSIVE ProcessarLinhas(_, _, _)
ProcessarLinhas(resultado, linhas, n) ==
    IF linhas = <<>> THEN resultado
    ELSE ProcessarLinhas(ProcessarLinha(resultado, Head(linhas), n).resultado,
                         Tail(linhas), n + 1)

extrairDados(linhas, tipo) == ProcessarLinhas(ResultadoVazio(tipo), linhas, 1)

----------------------------------------------------------------------------
(* ImportacaoController: the import of the selected files                   *)

\* processarArquivoSped: the parser's result with "metadados" replaced by
\* { nomeArquivo, tipoArquivo, tamanhoBytes, dataProcessamento }, which
\* drops the parser's counters
processarArquivoSped(linhas, tipo) ==
    [extrairDados(linhas, tipo) EXCEPT !.registrosProcessados = NaoDef,
                                       !.registrosIgnorados = NaoDef,
                                       !.erros = NaoDef]

RECURSIVE Combinar(_, _)
Combinar(combinado, resultados) ==
    LET
        CombinarUm(atual, resultado) ==
            [atual EXCEPT
                !.arquivosProcessados =
                    Append(@, [tipoArquivo |-> resultado.tipo,
                               registrosProcessados |-> resultado.registrosProcessados,
                               registrosIgnorados |-> resultado.registrosIgnorados,
                               erros |-> resultado.erros]),
                !.empresa = IF /\ resultado.empresa.chaves > 0
                               /\ resultado.empresa.nome /= ""
                               /\ (atual.empresa.nome = ""
                                   \/ atual.empresa.chaves < resultado.empresa.chaves)
                            THEN resultado.empresa ELSE @,
                !.documentos = @ \o resultado.documentos]
    IN
    IF resultados = <<>> THEN combinado
    ELSE Combinar(CombinarUm(combinado, Head(resultados)), Tail(resultados))

combinarResultados(resultados) ==
    LET
        \* the object combinarResultados starts from; "debitos" is created empty and
        \* is in none of the merged property lists
        CombinadoVazio ==
            [empresa |-> EmpresaVazia, documentos |-> <<>>, debitosPis |-> <<>>,
             arquivosProcessados |-> <<>>]
    IN  Combinar(CombinadoVazio, resultados)

\* what extrairDadosParaSimulador can see of the combined object: it has a
\* (possibly empty) "empresa" and "documentos", and no "fiscal",
\* "contribuicoes" or "ecf" property
ComoEntrada(combinado) ==
    [EntradaVazia EXCEPT
        !.empresa = Algum([nome |-> combinado.empresa.nome,
                           nomeEmpresarial |-> "", razaoSocial |-> "",
                           cnpj |-> "", tipoEmpresa |-> ""]),
        !.documentos = combinado.documentos]

MaxLinhas == 2

ArquivoAusente(tipo) ==
    [tipo |-> tipo, estado |-> "ausente", linhas |-> <<>>, dados |-> ResultadoVazio(tipo)]

ArquivosPossiveis(tipo) ==
    LET
        ConteudosDe ==
            LET
                LinhasContribuicoes ==
                    {[LinhaVazia EXCEPT !.registro = "0000", !.campos = 15, !.nome = "ACME"],
                     [LinhaVazia EXCEPT !.registro = "0111", !.campos = 5, !.valor = 100000],
                     [LinhaVazia EXCEPT !.registro = "M200", !.campos = 14, !.valor = 1650],
                     [LinhaVazia EXCEPT !.registro = "C100", !.campos = 18, !.valor = 500,
                                        !.saida = TRUE, !.dataEmissao = 0]}
            IN
            CASE tipo = "contribuicoes" -> SeqsAte(LinhasContribuicoes, MaxLinhas)
              [] tipo = "fiscal" ->
                    {<<>>,
                     <<[LinhaVazia EXCEPT !.registro = "0000", !.campos = 15, !.nome = "ACME SA"]>>,
                     <<[LinhaVazia EXCEPT !.registro = "C100", !.campos = 13, !.valor = 900,
                                          !.saida = TRUE, !.dataEmissao = DataInvalida]>>}
              [] tipo = "ecf" ->
                    {<<[LinhaVazia EXCEPT !.registro = "0000", !.campos = 15, !.nome = "ACME"]>>}
              [] OTHER ->
                    \* a 0000 line whose name field is empty
                    {<<[LinhaVazia EXCEPT !.registro = "0000", !.campos = 15]>>}
    IN
    {ArquivoAusente(tipo)} \cup
    {[ArquivoAusente(tipo) EXCEPT !.estado = "selecionado", !.linhas = c] :
        c \in ConteudosDe}

\* the promises pushed by iniciarImportacao, in the order fiscal,
\* contribuicoes, ecf, ecd
Promessas(arqs) == SelectSeq(arqs, LAMBDA a : a.estado /= "ausente")

\* processarRelacoesCruzadas and calcularValoresAgregados add root-level
\* figures (receitaBruta, ...) that extrairDadosParaSimulador never reads.

InitImportacao ==
    /\ pc = "selecao"
    /\ arquivos \in {<<f, c, e, d>> : f \in ArquivosPossiveis("fiscal"),
                                      c \in ArquivosPossiveis("contribuicoes"),
                                      e \in ArquivosPossiveis("ecf"),
                                      d \in ArquivosPossiveis("ecd")}
    /\ importacao = ImportacaoParada
    /\ simulador = SimuladorVazio
    /\ entrada = EntradaVazia
    /\ saida = DadosPadrao
    /\ escapou = FALSE
    /\ imposto = "pis"
    /\ dadosSped = DadosVazio
    /\ faturamento = 0
    /\ debito = NaoDef

\* iniciarImportacao up to the call of Promise.all
IniciarImportacao ==
    /\ pc = "selecao"
    /\ importacao.estado = "parada"
    /\ IF Len(Promessas(arquivos)) = 0
       THEN /\ importacao' = [estado |-> "sem-arquivos", log |-> <<"erro: selecione um arquivo">>]
            /\ UNCHANGED arquivos
       ELSE /\ importacao' = [estado |-> "aguardando", log |-> <<"inicio">>]
            /\ arquivos' = [k \in DOMAIN arquivos |->
                              IF arquivos[k].estado = "selecionado"
                              THEN [arquivos[k] EXCEPT !.estado = "lendo"]
                              ELSE arquivos[k]]
    /\ pc' = "importando"
    /\ UNCHANGED <<imposto, dadosSped, faturamento, debito, entrada, saida, escapou, simulador>>

\* reader.onload of one file: decode, aggregate, resolve
ArquivoProcessado ==
    \E k \in DOMAIN arquivos :
        /\ arquivos[k].estado = "lendo"
        /\ arquivos' = [arquivos EXCEPT
                          ![k].estado = "resolvida",
                          ![k].dados = processarArquivoSped(arquivos[k].linhas, arquivos[k].tipo)]
        /\ importacao' = [importacao EXCEPT !.log = Append(@, "sucesso: " \o arquivos[k].tipo)]
        /\ UNCHANGED <<pc, imposto, dadosSped, faturamento, debito, entrada, saida,
                       escapou, simulador>>

\* reader.onerror, or a raise while the content is read, decoded or
\* aggregated: the file's promise is rejected
ArquivoFalhou ==
    \E k \in DOMAIN arquivos :
        /\ arquivos[k].estado = "lendo"
        /\ arquivos' = [arquivos EXCEPT ![k].estado = "rejeitada"]
        /\ importacao' = [importacao EXCEPT !.log = Append(@, "erro: " \o arquivos[k].tipo)]
        /\ UNCHANGED <<pc, imposto, dadosSped, faturamento, debito, entrada, saida,
                       escapou, simulador>>

\* a promise that settles as soon as one of the promises is fulfilled
TodasCumpridas_UmaBasta(arqs) ==
    \E k \in DOMAIN arqs : arqs[k].estado = "resolvida"

\* Promise.all is fulfilled: every promise pushed is fulfilled
TodasCumpridas(arqs) ==
    \A k \in DOMAIN arqs : arqs[k].estado \in {"ausente", "resolvida"}

\* the results ordered by the moment each promise was fulfilled, which the
\* log records
ResultadosDe_OrdemDeConclusao(arqs, log) ==
    LET tipos == SelectSeq(log, LAMBDA m :
                    \E k \in DOMAIN arqs : m = "sucesso: " \o arqs[k].tipo)
    IN  [j \in DOMAIN tipos |->
            (CHOOSE a \in {arqs[k] : k \in DOMAIN arqs} :
                tipos[j] = "sucesso: " \o a.tipo).dados]

\* the array Promise.all hands to then: the results in the order of the
\* promises, whatever the order in which they were fulfilled
ResultadosDe(arqs, log) ==
    [k \in DOMAIN Promessas(arqs) |-> Promessas(arqs)[k].dados]

\* Promise.all(...).then: combine, extract, fill the simulator
ImportacaoConcluida ==
    /\ importacao.estado = "aguardando"
    /\ TodasCumpridas(arquivos)
    /\ LET combinado == combinarResultados(ResultadosDe(arquivos, importacao.log))
       IN  /\ dadosSped' = combinado
           /\ entrada' = ComoEntrada(combinado)
           /\ saida' = extrairDadosParaSimulador(ComoEntrada(combinado)).dados
           /\ escapou' = extrairDadosParaSimulador(ComoEntrada(combinado)).escapou
    /\ simulador' = [preenchido |-> TRUE]
    /\ importacao' = [estado |-> "concluida", log |-> Append(importacao.log, "sucesso: importacao")]
    /\ UNCHANGED <<pc, imposto, faturamento, debito, arquivos>>

\* Promise.all(...).catch: runs as soon as one promise is rejected; it only
\* writes to the log
ImportacaoFalhou ==
    /\ importacao.estado = "aguardando"
    /\ \E k \in DOMAIN arquivos : arquivos[k].estado = "rejeitada"
    /\ importacao' = [estado |-> "falhou", log |-> Append(importacao.log, "erro: importacao")]
    /\ UNCHANGED <<pc, imposto, dadosSped, faturamento, debito, entrada, saida, escapou,
                   arquivos, simulador>>

NextImportacao ==
    \/ IniciarImportacao
    \/ ArquivoProcessado
    \/ ArquivoFalhou
    \/ ImportacaoConcluida
    \/ ImportacaoFalhou

SpecImportacao == InitImportacao /\ [][NextImportacao]_vars

----------------------------------------------------------------------------
(* Properties of the import                                                 *)

\* C2 (as stated): after the import of that file the output reports a PIS
\* effective rate of 1.65% and tags the PIS debit 'sped'.
C2_Original ==
    LET
        \* only the contributions file is selected; it declares a revenue of
        \* 100,000 and holds one PIS debit entry of 1,650
        CenarioContribuicoes ==
            LET
                LinhaDebitoPIS(l) == l.registro = "M200" /\ l.campos >= 14 /\ l.valor = 1650
            IN
            LET
                LinhaReceita(l) == l.registro \in {"0111", "A100"} /\ l.valor = 100000
            IN
            /\ \A k \in {1, 3, 4} : arquivos[k].estado = "ausente"
            /\ Len(arquivos[2].linhas) = 2
            /\ LinhaReceita(arquivos[2].linhas[1])
            /\ LinhaDebitoPIS(arquivos[2].linhas[2])
    IN
    (importacao.estado = "concluida" /\ CenarioContribuicoes)
    => /\ AliquotaReportada(saida, "pis") = 165
       /\ FonteDe(saida.composicao.debitos, "pis") = FonteSPED

\* C10 (as stated): when the processing of a selected file raised, the import
\* still ends with a degraded output (label 'baixa', one captured message)
\* handed to the simulator.
C10_Original ==
    LET
        \* the import has stopped: its continuation ran and no file is being read
        Terminada ==
            /\ importacao.estado \in {"concluida", "falhou"}
            /\ \A k \in DOMAIN arquivos : arquivos[k].estado /= "lendo"
    IN
    (Terminada /\ \E k \in DOMAIN arquivos : arquivos[k].estado = "rejeitada")
    => /\ simulador.preenchido
       /\ saida.confiabilidade = "baixa"
       /\ Len(saida.inconsistencias) = 1

----------------------------------------------------------------------------
(* Properties of the combination of the per-file results                    *)

Selecionados == {k \in DOMAIN arquivos : arquivos[k].estado /= "ausente"}

\* C13: the step that combines the results is taken only in a state where
\* the processing of every selected file has completed.
C13_CombinaDepoisDeTodos ==
    [][(importacao.estado /= "concluida" /\ importacao'.estado = "concluida")
        => /\ \A k \in Selecionados : arquivos[k].estado = "resolvida"
           /\ Len(dadosSped'.arquivosProcessados) = Cardinality(Selecionados)]_vars

\* an import of two or more files has combined its results
C13_Witness ==
    /\ importacao.estado = "concluida"
    /\ Cardinality(Selecionados) >= 2
    /\ Len(dadosSped.arquivosProcessados) = Cardinality(Selecionados)

\* the positions, in the log, of the messages of the files fulfilled
PosicaoNoLog(tipo) ==
    CHOOSE j \in DOMAIN importacao.log : importacao.log[j] = "sucesso: " \o tipo

C15_Original ==
    LET
        \* the import of a contributions file together with a fiscal file that holds
        \* no line: the fiscal result is the empty dataset
        CombinadoComVazio ==
            /\ importacao.estado = "concluida"
            /\ arquivos[1].estado = "resolvida" /\ arquivos[1].linhas = <<>>
            /\ arquivos[2].estado = "resolvida"
            /\ arquivos[3].estado = "ausente" /\ arquivos[4].estado = "ausente"
    IN
    CombinadoComVazio
    => /\ dadosSped.empresa = arquivos[2].dados.empresa
       /\ dadosSped.documentos = arquivos[2].dados.documentos
       /\ dadosSped.debitosPis = arquivos[2].dados.debitosPis

\* what the decoder counted for the file in slot k
MetadadosDoParser(k) == extrairDados(arquivos[k].linhas, arquivos[k].tipo)

\* the entry of metadados.arquivosProcessados for the file in slot k
MetadadosCombinados(k) ==
    LET pos == Cardinality({j \in Selecionados : j <= k})
    IN  dadosSped.arquivosProcessados[pos]

\* C16 (as stated): the consolidated output keeps, for every processed file,
\* the decoder's counts of processed and ignored records, its list of line
\* errors and the file type.
C16_Original ==
    importacao.estado = "concluida"
    => \A k \in Selecionados :
          /\ MetadadosCombinados(k).tipoArquivo = MetadadosDoParser(k).tipo
          /\ MetadadosCombinados(k).registrosProcessados
               = MetadadosDoParser(k).registrosProcessados
          /\ MetadadosCombinados(k).registrosIgnorados
               = MetadadosDoParser(k).registrosIgnorados
          /\ MetadadosCombinados(k).erros = MetadadosDoParser(k).erros

RECURSIVE ConcatenarDebitosPis(_)
ConcatenarDebitosPis(resultados) ==
    IF resultados = <<>> THEN <<>>
    ELSE Head(resultados).debitosPis \o ConcatenarDebitosPis(Tail(resultados))

\* C20 (as stated): the list under a category key of the combined dataset is
\* the concatenation, in input order, of the per-file lists under that key
\* (here the key "pis" of the debits).
C20_Original ==
    importacao.estado = "concluida"
    => dadosSped.debitosPis
         = ConcatenarDebitosPis(ResultadosDe(arquivos, importacao.log))

\* C21 (as stated): the company identity of the combined dataset is that of
\* the input with the most identity fields, an input with a name being
\* preferred over one without; when no input has a name it is still that of
\* the input with the most fields.
C21_Original ==
    importacao.estado = "concluida"
    => LET identidades == {arquivos[k].dados.empresa : k \in Selecionados} \ {EmpresaVazia}
           comNome == {r \in identidades : r.nome /= ""}
           candidatas == IF comNome /= {} THEN comNome ELSE identidades
       IN  candidatas /= {}
           => /\ dadosSped.empresa \in candidatas
              /\ \A r \in candidatas : r.chaves <= dadosSped.empresa.chaves

----------------------------------------------------------------------------
(* Properties of the revenue and of the company name                        *)

\* the candidate sources of the monthly revenue, in the order of the chain
FontesReceita(e) ==
    <<ReceitaContribuicoes(e), SaidasFiscal(e), e.receitaLiquidaEcf,
      IF Len(e.documentos) > 0 /\ ~LancaDataInvalida(e.documentos)
      THEN faturamentoPorDocumentos(e.documentos) ELSE NaoDef>>

\* the position of the first source that is greater than zero, 0 if none
PrimeiraFontePositiva(e) ==
    IF \E k \in 1..4 : FontesReceita(e)[k] > 0
    THEN CHOOSE k \in 1..4 : /\ FontesReceita(e)[k] > 0
                             /\ \A j \in 1..(k - 1) : ~(FontesReceita(e)[j] > 0)
    ELSE 0

\* C17: the monthly revenue of the output is the value of the first of the
\* four sources (contributions declaration, fiscal outbound totalizer,
\* income-tax net revenue, outbound documents) that is greater than zero.
C17_PrimeiraReceitaPositiva ==
    (Extraido /\ entrada.nulo = "objeto" /\ PrimeiraFontePositiva(entrada) > 0)
    => /\ saida.empresa.faturamento
            = FontesReceita(entrada)[PrimeiraFontePositiva(entrada)]
       /\ (saida.empresa.definido /\ PrimeiraFontePositiva(entrada) <= 3)
            => saida.empresa.faturamentoMensal
                 = FontesReceita(entrada)[PrimeiraFontePositiva(entrada)]

\* an earlier source and a later source are both greater than zero and
\* differ
C17_Witness ==
    /\ Extraido
    /\ entrada.nulo = "objeto"
    /\ ReceitaContribuicoes(entrada) = 1000
    /\ SaidasFiscal(entrada) = 50000
    /\ entrada.receitaLiquidaEcf = 30000
    /\ Len(entrada.documentos) > 0
    /\ saida.empresa.faturamento = 1000

\* C18 (as stated): in every output of the top-level extraction the company
\* name is a non-empty text: a name a source supplied, or the placeholder
\* built around the tax id.
C18_Original ==
    Extraido
    => \/ /\ Len(saida.empresa.nome) = 1
          /\ NomePreenchido(saida.empresa.nome[1])
       \/ /\ saida.empresa.cnpj /= ""
          /\ saida.empresa.nome = <<"Empresa (CNPJ: ", saida.empresa.cnpj, ")">>

\* the identity records of the three sources, in the order direct, goods-tax,
\* contributions
FontesIdentidade(e) ==
    <<e.empresa,
      IF Presente(e.fiscal) THEN Valor(e.fiscal).empresa ELSE Nenhum,
      IF Presente(e.contribuicoes) THEN Valor(e.contribuicoes).empresa ELSE Nenhum>>

\* C24 (as stated): the company name comes from the first of the sources
\* direct, goods-tax, contributions that has a filled name field; a source
\* that is present without a name does not stop the later ones from being
\* tried, and the placeholder is used only when no source has a name.
C24_Original ==
    LET comNome == SelectSeq(FontesIdentidade(entrada),
                             LAMBDA o : Presente(o) /\ NomeDe(Valor(o)) /= "")
    IN  (/\ Extraido
         /\ ~LancaNoTopo(entrada)
         /\ \E k \in 1..3 : Presente(FontesIdentidade(entrada)[k]))
        => IF comNome /= <<>>
           THEN saida.empresa.nome = <<NomeDe(Valor(comNome[1]))>>
           ELSE saida.empresa.nome[1] \in {"Empresa Importada", "Empresa (CNPJ: "}

\* C23 (as stated): when none of the four revenue sources yields a value
\* above zero (outbound documents that aggregate to zero included) and a tax
\* debit is known, the resolved monthly revenue is that debit over the
\* statutory average rate of its tax, not zero.
C23_Original ==
    LET estimativa == estimarFaturamentoPorImpostos(entrada.debitos)
    IN  (/\ Extraido
         /\ ~LancaNoTopo(entrada)
         /\ faturamentoMensal(entrada) <= 0
         /\ estimativa > 0)
        => \/ saida.empresa.faturamento = estimativa
           \/ saida.empresa.faturamentoMensal = estimativa

----------------------------------------------------------------------------
(* parseValorMonetario on text                                              *)
(* A text is the sequence of its characters; a number is kept exactly, as   *)
(* an integer and a count of decimal places, without trailing zeros.        *)

MaxLen == 4

Conta(s, c) == Cardinality({k \in DOMAIN s : s[k] = c})

\* String.prototype.trim for the blank
RECURSIVE AparaInicio(_)
AparaInicio(s) ==
    IF s /= <<>> /\ Head(s) = " " THEN AparaInicio(Tail(s)) ELSE s

RECURSIVE AparaFim(_)
AparaFim(s) ==
    IF s /= <<>> /\ s[Len(s)] = " " THEN AparaFim(SubSeq(s, 1, Len(s) - 1)) ELSE s

Apara(s) == AparaFim(AparaInicio(s))

\* replace(/\./g, '')
SemPontos(s) == SelectSeq(s, LAMBDA c : c /= ".")

\* the two pieces of split(',') of a text with one comma
AntesDaVirgula(s) ==
    SubSeq(s, 1, (CHOOSE k \in DOMAIN s : s[k] = ",") - 1)

DepoisDaVirgula(s) ==
    SubSeq(s, (CHOOSE k \in DOMAIN s : s[k] = ",") + 1, Len(s))

RECURSIVE ContarDigitos(_)
ContarDigitos(s) ==
    LET
        Digitos == {"0", "1", "2", "3", "4", "5", "6", "7", "8", "9"}
    IN
    IF s /= <<>> /\ Head(s) \in Digitos THEN 1 + ContarDigitos(Tail(s)) ELSE 0

RECURSIVE ValorDigitos(_)
ValorDigitos(s) ==
    LET
        DigitoDe(c) ==
            CASE c = "0" -> 0 [] c = "1" -> 1 [] c = "2" -> 2 [] c = "3" -> 3
              [] c = "4" -> 4 [] c = "5" -> 5 [] c = "6" -> 6 [] c = "7" -> 7
              [] c = "8" -> 8 [] OTHER -> 9
    IN
    IF s = <<>> THEN 0
    ELSE 10 * ValorDigitos(SubSeq(s, 1, Len(s) - 1)) + DigitoDe(s[Len(s)])

RECURSIVE Numero(_, _)
Numero(n, casas) ==
    IF casas > 0 /\ n % 10 = 0 THEN Numero(n \div 10, casas - 1)
    ELSE [num |-> n, casas |-> casas]

Zero == Numero(0, 0)

\* parseFloat of a text without sign and exponent: the longest prefix of
\* the form digits, digits.digits, digits. or .digits; Nenhum for NaN
parseFloat(s) ==
    LET t == AparaInicio(s)
        ni == ContarDigitos(t)
        resto == SubSeq(t, ni + 1, Len(t))
        nf == IF resto /= <<>> /\ Head(resto) = "."
              THEN ContarDigitos(Tail(resto)) ELSE 0
    IN  IF ni + nf = 0 THEN Nenhum
        ELSE Algum(Numero(ValorDigitos(SubSeq(t, 1, ni) \o SubSeq(resto, 2, nf + 1)),
                          nf))

\* isNaN(resultado) ? 0 : resultado
ZeroSeNaN(r) == IF Presente(r) THEN Valor(r) ELSE Zero

TextoNull == <<"n", "u", "l", "l">>

\* the comma replaced by a dot and nothing removed
parseValorMonetario_SemMilhar(valorString) ==
    IF valorString = <<>> \/ valorString = <<"0">> \/ valorString = TextoNull
    THEN Zero
    ELSE LET valor == Apara(valorString)
         IN  ZeroSeNaN(parseFloat(
                 IF Conta(valor, ",") > 0
                 THEN IF Conta(valor, ",") = 1
                      THEN AntesDaVirgula(valor) \o <<".">> \o DepoisDaVirgula(valor)
                      ELSE valor
                 ELSE valor))

\* parseValorMonetario on a text (the copy of sped-extractor.js, lines
\* 12-53, does the same to a text)
parseValorMonetario(valorString) ==
    IF valorString = <<>> \/ valorString = <<"0">> \/ valorString = TextoNull
    THEN Zero
    ELSE LET valor == Apara(valorString)
         IN  ZeroSeNaN(parseFloat(
                 IF Conta(valor, ",") > 0
                 THEN IF Conta(valor, ",") = 1
                      THEN SemPontos(AntesDaVirgula(valor)) \o <<".">>
                               \o DepoisDaVirgula(valor)
                      ELSE valor
                 ELSE IF Conta(valor, ".") > 1 THEN SemPontos(valor)
                 ELSE valor))

TextoMilhares == <<"1", ".", "2", "3", "4", ".", "5", "6", "7", ",", "8", "9">>

TextoDecimal == <<"1", "2", ".", "5", "0">>

InitMonetario ==
    LET
        Textos ==
            LET
                Alfabeto == {"0", "1", ".", ",", " ", "x"}
            IN  SeqsAte(Alfabeto, MaxLen) \cup {TextoMilhares, TextoDecimal, TextoNull}
    IN
    /\ pc = "texto"
    /\ entrada \in Textos
    /\ saida = Zero
    /\ escapou = FALSE
    /\ arquivos = ArquivosNenhum
    /\ importacao = ImportacaoParada
    /\ simulador = SimuladorVazio
    /\ imposto = "pis"
    /\ dadosSped = DadosVazio
    /\ faturamento = 0
    /\ debito = NaoDef

ParseValorMonetario ==
    /\ pc = "texto"
    /\ saida' = parseValorMonetario(entrada)
    /\ pc' = "convertido"
    /\ UNCHANGED <<imposto, dadosSped, faturamento, debito, entrada, escapou,
                   arquivos, importacao, simulador>>

SpecMonetario == InitMonetario /\ [][ParseValorMonetario]_vars

\* the rule as stated: with a comma, every dot is removed and the comma is
\* the decimal separator; without a comma, two or more dots are all
\* removed; what is then no number gives 0
ValorEsperado(texto) ==
    IF texto = <<>> \/ texto = <<"0">> \/ texto = TextoNull THEN Zero
    ELSE LET valor == Apara(texto)
             comVirgula == [k \in DOMAIN SemPontos(valor) |->
                              IF SemPontos(valor)[k] = "," THEN "."
                              ELSE SemPontos(valor)[k]]
         IN  ZeroSeNaN(parseFloat(
                 IF Conta(valor, ",") > 0 THEN comVirgula
                 ELSE IF Conta(valor, ".") > 1 THEN SemPontos(valor)
                 ELSE valor))

\* C19 (as stated): for every text, the value is the one the rule gives.
C19_Original ==
    pc = "convertido" => saida = ValorEsperado(entrada)

\* C19: the rule holds for every text with no comma, and for every text
\* with one comma and no dot after it. With one comma and a dot after it,
\* only the dots before the comma are removed; with two or more commas the
\* text is parsed as it is. "1.234.567,89" gives 1234567.89, "" gives 0 and
\* "12.50" gives 12.5.
C19_RegraComUmaVirgula ==
    pc = "convertido"
    => LET valor == Apara(entrada)
       IN  /\ Conta(valor, ",") = 0 => saida = ValorEsperado(entrada)
           /\ (Conta(valor, ",") = 1 /\ Conta(DepoisDaVirgula(valor), ".") = 0)
                => saida = ValorEsperado(entrada)
           /\ (Conta(valor, ",") = 1 /\ Conta(DepoisDaVirgula(valor), ".") > 0)
                => saida = ZeroSeNaN(parseFloat(
                              SemPontos(AntesDaVirgula(valor)) \o <<".">>
                                  \o DepoisDaVirgula(valor)))
           /\ Conta(valor, ",") > 1
                => saida = ZeroSeNaN(parseFloat(valor))
           /\ entrada = TextoMilhares => saida = [num |-> 123456789, casas |-> 2]
           /\ entrada = <<>> => saida = [num |-> 0, casas |-> 0]
           /\ entrada = TextoDecimal => saida = [num |-> 125, casas |-> 1]

\* "1.234.567,89" has been converted to 1234567.89
C19_Witness ==
    /\ pc = "convertido"
    /\ entrada = TextoMilhares
    /\ saida = [num |-> 123456789, casas |-> 2]

----------------------------------------------------------------------------
(* SpedParser.extrairDados, one line at a time                              *)

MaxLinhasArquivo == 3

InitParser ==
    LET
        LinhasArquivo ==
            {[LinhaVazia EXCEPT !.branca = TRUE],
             [LinhaVazia EXCEPT !.campos = 1],
             [LinhaVazia EXCEPT !.registro = "ZZZZ", !.campos = 3],
             [LinhaVazia EXCEPT !.registro = "__proto__", !.campos = 3],
             [LinhaVazia EXCEPT !.registro = "0000", !.campos = 15, !.nome = "ACME"],
             [LinhaVazia EXCEPT !.registro = "0000", !.campos = 9, !.nome = "ACME"],
             [LinhaVazia EXCEPT !.registro = "A100", !.campos = 7, !.valor = 100000],
             [LinhaVazia EXCEPT !.registro = "M200", !.campos = 14, !.valor = 1650],
             [LinhaVazia EXCEPT !.registro = "C100", !.campos = 3, !.saida = TRUE],
             [LinhaVazia EXCEPT !.registro = "C100", !.campos = 18, !.valor = 500,
                                !.saida = TRUE, !.dataEmissao = 0]}
    IN
    LET
        \* the loop variable i, the result object and the codes handed to
        \* integrarDados so far
        PassagemInicial(tipo) ==
            [i |-> 0, resultado |-> ResultadoVazio(tipo), integrados |-> <<>>]
    IN
    /\ pc = "linhas"
    /\ entrada \in [tipo : {"fiscal", "contribuicoes"},
                    linhas : SeqsAte(LinhasArquivo, MaxLinhasArquivo)]
    /\ saida = PassagemInicial(entrada.tipo)
    /\ escapou = FALSE
    /\ arquivos = ArquivosNenhum
    /\ importacao = ImportacaoParada
    /\ simulador = SimuladorVazio
    /\ imposto = "pis"
    /\ dadosSped = DadosVazio
    /\ faturamento = 0
    /\ debito = NaoDef

\* one iteration of the for loop of extrairDados
ProcessarProximaLinha ==
    /\ pc = "linhas"
    /\ saida.i < Len(entrada.linhas)
    /\ LET n == saida.i + 1
           l == entrada.linhas[n]
           passo == ProcessarLinha(saida.resultado, l, n)
       IN  /\ saida' = [i |-> n,
                        resultado |-> passo.resultado,
                        integrados |->
                            IF passo.resultado.registrosProcessados
                                 > saida.resultado.registrosProcessados
                            THEN Append(saida.integrados, [registro |-> l.registro, linha |-> n])
                            ELSE saida.integrados]
           /\ escapou' = passo.propagou
           /\ pc' = IF passo.propagou THEN "lancou" ELSE "linhas"
    /\ UNCHANGED <<imposto, dadosSped, faturamento, debito, entrada, arquivos,
                   importacao, simulador>>

\* the loop is over: processarRelacoesEntreDados and the return
RetornarResultado ==
    /\ pc = "linhas"
    /\ saida.i = Len(entrada.linhas)
    /\ pc' = "retornou"
    /\ UNCHANGED <<imposto, dadosSped, faturamento, debito, entrada, saida, escapou,
                   arquivos, importacao, simulador>>

NextParser ==
    \/ ProcessarProximaLinha
    \/ RetornarResultado

SpecParser == InitParser /\ [][NextParser]_vars

----------------------------------------------------------------------------
(* Properties of the pass over the lines                                    *)

\* the numbers of the lines read so far whose dispatch raises
LinhasQueLancam == {n \in 1..saida.i : Lanca(entrada.linhas[n])}

\* the lines read so far that are handed to a decoder which returns a record
LinhasComRegistro ==
    {n \in 1..saida.i :
        LET l == entrada.linhas[n]
        IN  /\ ~l.branca
            /\ l.campos >= 2
            /\ l.registro \in registrosMapeados(entrada.tipo)
            /\ l.campos >= MinimoCampos(entrada.tipo, l.registro)}

\* C11: a line whose decoding raises leaves exactly one entry with its line
\* number in the error list, the lines after it are still decoded and
\* counted, and the pass ends by returning, never by raising.
C11_ErroDeLinhaNaoInterrompe ==
    LET
        ErrosDaLinha(n) ==
            {k \in DOMAIN saida.resultado.erros : saida.resultado.erros[k].linha = n}
    IN
    /\ pc \in {"linhas", "retornou"}
    /\ ~escapou
    /\ \A n \in 1..saida.i :
          Cardinality(ErrosDaLinha(n)) = IF n \in LinhasQueLancam THEN 1 ELSE 0
    /\ Len(saida.resultado.erros) = Cardinality(LinhasQueLancam)
    /\ saida.resultado.registrosProcessados = Cardinality(LinhasComRegistro)
    /\ {r.linha : r \in {saida.integrados[k] : k \in DOMAIN saida.integrados}}
         = LinhasComRegistro
    /\ (pc = "retornou" => saida.i = Len(entrada.linhas))

\* the pass returned; its first line raised and a later line gave a record
C11_Witness ==
    /\ pc = "retornou"
    /\ Len(entrada.linhas) >= 2
    /\ 1 \in LinhasQueLancam
    /\ \E n \in LinhasComRegistro : n > 1
    /\ Len(saida.resultado.erros) = 1
    /\ saida.resultado.erros[1].linha = 1

\* C12 (as stated): a mapped line with fewer fields than its record's schema
\* reads never adds a record to the aggregate.
C12_Original ==
    LET
        \* the number of fields the decoder of a record reads by position: the
        \* minimum it validates, and for the fiscal C100 decoder, which validates
        \* nothing, the positions 0 to 16 it reads
        CamposDoEsquema(tipo, registro) ==
            IF tipo = "fiscal" /\ registro = "C100" THEN 17
            ELSE MinimoCampos(tipo, registro)
    IN
    \A n \in 1..saida.i :
        LET l == entrada.linhas[n]
        IN  (/\ ~l.branca
             /\ l.campos >= 2
             /\ l.registro \in registrosMapeados(entrada.tipo)
             /\ l.campos < CamposDoEsquema(entrada.tipo, l.registro))
            => \A k \in DOMAIN saida.integrados : saida.integrados[k].linha /= n

\* C28 (as stated): no line is counted in more than one of the tallies
\* processed, ignored and errors; a line with an unknown record code
\* increments only the ignored tally; the sum of the three tallies never
\* exceeds the number of non-blank lines read so far.
C28_Original ==
    [][saida'.i = saida.i + 1
        => LET Contagens(passagem) ==
                   <<passagem.resultado.registrosProcessados,
                     passagem.resultado.registrosIgnorados,
                     Len(passagem.resultado.erros)>>
               l == entrada.linhas[saida.i + 1]
               antes == Contagens(saida)
               depois == Contagens(saida')
               naoBrancas == Cardinality({n \in 1..(saida.i + 1) : ~entrada.linhas[n].branca})
           IN  /\ \A k \in 1..3 : depois[k] \in {antes[k], antes[k] + 1}
               /\ Cardinality({k \in 1..3 : depois[k] /= antes[k]}) <= 1
               /\ (/\ ~l.branca
                   /\ l.campos >= 2
                   /\ l.registro \notin registrosMapeados(entrada.tipo))
                  => depois = <<antes[1], antes[2] + 1, antes[3]>>
               /\ depois[1] + depois[2] + depois[3] <= naoBrancas]_vars

----------------------------------------------------------------------------
(* The pass over a file of records that are kept by category                *)

InitAgregacao ==
    LET
        LinhasPorCategoria ==
            {[LinhaVazia EXCEPT !.registro = "M100", !.campos = 8, !.valor = 10],
             [LinhaVazia EXCEPT !.registro = "M100", !.campos = 8, !.valor = 20],
             [LinhaVazia EXCEPT !.registro = "M100", !.campos = 5, !.valor = 40],
             [LinhaVazia EXCEPT !.registro = "M500", !.campos = 8, !.valor = 30],
             [LinhaVazia EXCEPT !.registro = "0110", !.campos = 4, !.valor = 1],
             [LinhaVazia EXCEPT !.registro = "0110", !.campos = 4, !.valor = 2],
             [LinhaVazia EXCEPT !.registro = "M110", !.campos = 7, !.valor = 5],
             [LinhaVazia EXCEPT !.registro = "M400", !.campos = 5, !.valor = 7],
             [LinhaVazia EXCEPT !.registro = "M200", !.campos = 14, !.valor = 1650]}
    IN
    /\ pc = "linhas"
    /\ entrada \in [tipo : {"contribuicoes"},
                    linhas : SeqsAte(LinhasPorCategoria, MaxLinhasArquivo)]
    /\ saida = [i |-> 0, resultado |-> ResultadoVazio(entrada.tipo), integrados |-> <<>>]
    /\ escapou = FALSE
    /\ arquivos = ArquivosNenhum
    /\ importacao = ImportacaoParada
    /\ simulador = SimuladorVazio
    /\ imposto = "pis"
    /\ dadosSped = DadosVazio
    /\ faturamento = 0
    /\ debito = NaoDef

SpecAgregacao == InitAgregacao /\ [][NextParser]_vars

\* the records of one kind and category that the decoders returned for the
\* lines read so far, in file order
RegistrosDoTipo(tipoRegistro, categoria) ==
    LET lidas == SubSeq(entrada.linhas, 1, saida.i)
        decodificadas ==
            SelectSeq(lidas, LAMBDA l :
                /\ ~l.branca
                /\ l.campos >= 2
                /\ ~Lanca(l)
                /\ l.registro \in registrosMapeados(entrada.tipo)
                /\ Presente(Decodificar(entrada.tipo, l)))
        registros == [k \in DOMAIN decodificadas |->
                        Valor(Decodificar(entrada.tipo, decodificadas[k]))]
    IN  SelectSeq(registros, LAMBDA r : r.tipo = tipoRegistro /\ r.categoria = categoria)

ListaDaCategoria(mapa, categoria) ==
    IF categoria \in DOMAIN mapa THEN mapa[categoria] ELSE <<>>

\* the records kept under a category key of "regimes"
RegimesGuardados(categoria) ==
    IF categoria \in DOMAIN saida.resultado.regimes
    THEN <<saida.resultado.regimes[categoria]>> ELSE <<>>

\* credits, adjustments, untaxed revenue and debits: the list under each
\* category key holds the records of that kind and category in file order
ListasEmOrdemDeArquivo ==
    /\ \A c \in {"pis", "cofins", "pis_cofins"} :
          /\ ListaDaCategoria(saida.resultado.creditos, c) = RegistrosDoTipo("credito", c)
          /\ ListaDaCategoria(saida.resultado.ajustes, c) = RegistrosDoTipo("ajuste", c)
          /\ ListaDaCategoria(saida.resultado.receitasNaoTributadas, c)
                = RegistrosDoTipo("receita_nao_tributada", c)
    /\ [k \in DOMAIN saida.resultado.debitosPis |->
            saida.resultado.debitosPis[k].valorTotalContribuicao]
         = [k \in DOMAIN RegistrosDoTipo("debito", "pis") |->
               RegistrosDoTipo("debito", "pis")[k].valor]

\* C22 (as stated): after the pass, for credits, debits, regimes, adjustments
\* and untaxed revenue, what is kept under a category key is the list, in
\* file order, of all the records of that kind and category; none has
\* replaced another.
C22_Original ==
    pc = "retornou"
    => /\ ListasEmOrdemDeArquivo
       /\ \A c \in {"pis", "cofins", "pis_cofins"} :
             RegimesGuardados(c) = RegistrosDoTipo("regime", c)

\* C22 (amended): credits, debits, adjustments and untaxed revenue are kept
\* as lists in file order under their category key; a regime record is kept
\* alone under its key, the last one of the file replacing the earlier ones.
C22_ListasExcetoRegime ==
    pc = "retornou"
    => /\ ListasEmOrdemDeArquivo
       /\ \A c \in {"pis", "cofins", "pis_cofins"} :
             LET declarados == RegistrosDoTipo("regime", c)
             IN  RegimesGuardados(c)
                   = IF declarados = <<>> THEN <<>>
                     ELSE <<declarados[Len(declarados)]>>

\* two different credits of one category around a credit of another one
C22_Witness ==
    /\ pc = "retornou"
    /\ Len(ListaDaCategoria(saida.resultado.creditos, "pis")) = 2
    /\ saida.resultado.creditos["pis"][1].valor /= saida.resultado.creditos["pis"][2].valor
    /\ Len(ListaDaCategoria(saida.resultado.creditos, "cofins")) = 1
    /\ entrada.linhas[2].registro = "M500"

----------------------------------------------------------------------------
(* Classification specification: regime and sector of one dataset           *)

MaxCfops == 3       \* most distinct operation codes in a dataset

InitClassificacao ==
    LET
        EntradasRegime ==
            {[DadosVazio EXCEPT !.formaApuracao = f,
                                !.temRegimePisCofins = r[1], !.codigoIncidencia = r[2],
                                !.temSimples = sn, !.temCreditosPis = cp,
                                !.temCreditosCofins = cc] :
                f \in {"", "1", "3", "5"},
                r \in {<<FALSE, "">>, <<TRUE, "1">>, <<TRUE, "2">>, <<TRUE, "3">>},
                sn \in BOOLEAN, cp \in BOOLEAN, cc \in BOOLEAN}

        EntradasSetor ==
            {[DadosVazio EXCEPT !.cfopsItens = ci, !.cfopsAnaliticos = ca, !.impIpi = ii] :
                ci \in {c \in SUBSET {"5101", "5933", "5932", "5405", "5403", "1102"} :
                            Cardinality(c) <= MaxCfops},
                ca \in {{}, {"5101"}},
                ii \in {<<>>, <<60>>}}
    IN
    /\ pc = "classificar"
    /\ dadosSped \in EntradasRegime \cup EntradasSetor
    /\ saida = [funcao |-> "", valor |-> ""]
    /\ entrada = EntradaVazia
    /\ escapou = FALSE
    /\ arquivos = ArquivosNenhum
    /\ importacao = ImportacaoParada
    /\ simulador = SimuladorVazio
    /\ imposto = "pis"
    /\ faturamento = 0
    /\ debito = NaoDef

DeterminarRegimeTributario ==
    /\ pc = "classificar"
    /\ saida' = [funcao |-> "determinarRegimeTributario",
                 valor |-> determinarRegimeTributario(dadosSped)]
    /\ pc' = "classificado"
    /\ UNCHANGED <<imposto, dadosSped, faturamento, debito, entrada, escapou,
                   arquivos, importacao, simulador>>

DeterminarTipoEmpresa ==
    /\ pc = "classificar"
    /\ saida' = [funcao |-> "determinarTipoEmpresa",
                 valor |-> determinarTipoEmpresa(dadosSped)]
    /\ pc' = "classificado"
    /\ UNCHANGED <<imposto, dadosSped, faturamento, debito, entrada, escapou,
                   arquivos, importacao, simulador>>

NextClassificacao ==
    \/ DeterminarRegimeTributario
    \/ DeterminarTipoEmpresa

SpecClassificacao == InitClassificacao /\ [][NextClassificacao]_vars

\* C25 (as stated): the regime is decided by the first source present, in
\* the order apportionment code, contributions-regime code, Simplified
\* record, non-cumulative credits, default; the sources of lower priority
\* never change the result.
C25_Original ==
    LET
        \* the position, in the order of determinarRegimeTributario, of the
        \* first source the dataset carries
        primeira ==
            IF dadosSped.formaApuracao /= "" THEN 1
            ELSE IF dadosSped.temRegimePisCofins THEN 2
            ELSE IF dadosSped.temSimples THEN 3
            ELSE IF dadosSped.temCreditosPis \/ dadosSped.temCreditosCofins THEN 4
            ELSE 5
        \* the datasets that differ from dadosSped only in sources of lower
        \* priority than that one
        variantes ==
            {[dadosSped EXCEPT !.temRegimePisCofins = r[1], !.codigoIncidencia = r[2],
                               !.temSimples = sn, !.temCreditosPis = cp,
                               !.temCreditosCofins = cc] :
                r \in IF primeira < 2
                      THEN {<<FALSE, "">>, <<TRUE, "1">>, <<TRUE, "2">>, <<TRUE, "3">>}
                      ELSE {<<dadosSped.temRegimePisCofins, dadosSped.codigoIncidencia>>},
                sn \in IF primeira < 3 THEN BOOLEAN ELSE {dadosSped.temSimples},
                cp \in IF primeira < 4 THEN BOOLEAN ELSE {dadosSped.temCreditosPis},
                cc \in IF primeira < 4 THEN BOOLEAN ELSE {dadosSped.temCreditosCofins}}
    IN
    (pc = "classificado" /\ saida.funcao = "determinarRegimeTributario")
    => \A v \in variantes : determinarRegimeTributario(v) = saida.valor

\* the categories that hold the highest score over the distinct operation
\* codes
Vencedores(cfops) ==
    LET Pontuacao ==
            [industria |-> 2 * Cardinality(cfops \cap cfopsIndustria),
             servicos |-> Cardinality((cfops \ cfopsIndustria) \cap cfopsServicos),
             comercio |-> Cardinality({c \in cfops \ (cfopsIndustria \cup cfopsServicos) :
                                         PrimeiroDigito(c) \in {"5", "6"}})]
    IN  {c \in DOMAIN Pontuacao :
            \A o \in DOMAIN Pontuacao : Pontuacao[o] <= Pontuacao[c]}

SetorSemIPI ==
    /\ pc = "classificado"
    /\ saida.funcao = "determinarTipoEmpresa"
    /\ Len(dadosSped.impIpi) = 0
    /\ Len(dadosSped.debIpi) = 0

\* C26 (as stated): without an excise-tax record the classifier returns the
\* category with the highest score, and commerce whenever the highest score
\* is shared by two or more categories.
C26_Original ==
    SetorSemIPI
    => LET v == Vencedores(extrairCFOPs(dadosSped))
       IN  IF Cardinality(v) = 1 THEN saida.valor \in v ELSE saida.valor = "comercio"

\* C26 (amended): without an excise-tax record the classifier returns the
\* category whose score is strictly the highest; when the highest score is
\* shared it returns industry if industry is one of the tied categories and
\* its score is positive, and commerce otherwise.
C26_EmpateFavoreceIndustria ==
    SetorSemIPI
    => LET v == Vencedores(extrairCFOPs(dadosSped))
       IN  IF Cardinality(v) = 1 THEN saida.valor \in v
           ELSE IF "industria" \in v /\ extrairCFOPs(dadosSped) \cap cfopsIndustria /= {}
           THEN saida.valor = "industria"
           ELSE saida.valor = "comercio"

\* industry and commerce share the highest score
C26_Witness ==
    /\ SetorSemIPI
    /\ Vencedores(extrairCFOPs(dadosSped)) = {"industria", "comercio"}
    /\ saida.valor = "industria"

----------------------------------------------------------------------------
(* Detection of the file type from the content                              *)
(* A file is given by its runs of equal lines, so that files longer than    *)
(* the sample stay small.                                                   *)

MaxSegmentos == 3   \* most runs of equal lines in a file

\* the number of lines of a sample that count for a type: blank lines and
\* lines without a separator are skipped
contadores(amostra, tipo) ==
    LET
        \* the record codes that identify each file type
        identificadores(t) ==
            CASE t = "contribuicoes" ->
                    {"0110", "0140", "A100", "A110", "A111", "C180", "C181", "C185", "C188",
                     "D100", "D101", "D105", "D111",
                     "F100", "F111", "F120", "F129", "F130", "F139", "F150", "F200", "F205",
                     "F210", "F211", "I100", "I199",
                     "M100", "M105", "M110", "M115", "M200", "M205", "M210", "M220", "M225",
                     "M400", "M410", "M500", "M505", "M510", "M515", "M600", "M605", "M610",
                     "M620", "M625", "M800", "M810",
                     "P100", "P110", "P199", "P200", "P210",
                     "1001", "1100", "1200", "1300", "1500"}
              [] t = "ecf" ->
                    {"0010", "0020", "J001", "J050", "J051", "J100", "K001", "K030", "K155",
                     "K156", "L001", "L030", "L100", "M001", "M010", "M300", "M350",
                     "N001", "N500", "N600", "N610", "N620", "N630", "N650", "N660", "N670",
                     "P001", "P030", "P100", "P130", "P150", "P200", "P230",
                     "T001", "T030", "T120", "T150", "U001", "U030", "U100", "Y540"}
              [] t = "ecd" ->
                    {"0007", "0020", "I001", "I010", "I012", "I015", "I020", "I030", "I050",
                     "I051", "I052", "I053", "I100", "I150", "I155", "I200", "I250", "I300",
                     "I310", "I350", "I355", "J001", "J005", "J100", "J150",
                     "K001", "K030", "K100", "K155", "K156", "K200", "K220", "K230", "K300"}
              [] OTHER ->
                    {"0001", "0005", "0150", "0190", "0200", "C100", "C170", "C190", "C197",
                     "E110", "E111", "E116", "E200", "E210", "E220", "H010", "H020",
                     "9900", "9990", "9999"}
    IN
    Cardinality({i \in DOMAIN amostra :
                    /\ ~amostra[i].branca
                    /\ amostra[i].campos >= 2
                    /\ amostra[i].registro \in identificadores(tipo)})

\* the type with the greatest counter, the counters being visited in the
\* order contribuicoes, ecf, ecd, fiscal starting from the counter of fiscal
tipoDetectado(amostra) ==
    LET maior(atual, tipo) ==
            IF contadores(amostra, tipo) > contadores(amostra, atual) THEN tipo ELSE atual
    IN  maior(maior(maior("fiscal", "contribuicoes"), "ecf"), "ecd")

\* the sample is the first 100 lines that are not blank
determinarTipoSped_SoNaoVazias(linhas) ==
    LET naoVazias == SelectSeq(linhas, LAMBDA l : ~l.branca)
        limiteLinha == IF Len(naoVazias) < 100 THEN Len(naoVazias) ELSE 100
    IN  IF Len(linhas) = 0 THEN "fiscal"
        ELSE tipoDetectado(SubSeq(naoVazias, 1, limiteLinha))

\* determinarTipoSped(linhas) with a file name that matches no pattern
determinarTipoSped(linhas) ==
    LET limiteLinha == IF Len(linhas) < 100 THEN Len(linhas) ELSE 100
    IN  IF Len(linhas) = 0 THEN "fiscal"
        ELSE tipoDetectado(SubSeq(linhas, 1, limiteLinha))

\* conteudo.split('\n') of a file given by its runs
RECURSIVE LinhasDe(_)
LinhasDe(segmentos) ==
    IF segmentos = <<>> THEN <<>>
    ELSE [k \in 1..Head(segmentos).vezes |-> Head(segmentos).linha]
            \o LinhasDe(Tail(segmentos))

InitDeteccao ==
    LET
        LinhasAmostra ==
            {[LinhaVazia EXCEPT !.branca = TRUE],
             [LinhaVazia EXCEPT !.registro = "ZZZZ", !.campos = 3],
             [LinhaVazia EXCEPT !.registro = "C100", !.campos = 18],
             [LinhaVazia EXCEPT !.registro = "M200", !.campos = 14],
             [LinhaVazia EXCEPT !.registro = "J001", !.campos = 3]}
    IN
    /\ pc = "detectar"
    /\ entrada \in [segmentos : SeqsAte([linha : LinhasAmostra, vezes : {1, 99}],
                                        MaxSegmentos)]
    /\ saida = ""
    /\ escapou = FALSE
    /\ arquivos = ArquivosNenhum
    /\ importacao = ImportacaoParada
    /\ simulador = SimuladorVazio
    /\ imposto = "pis"
    /\ dadosSped = DadosVazio
    /\ faturamento = 0
    /\ debito = NaoDef

DeterminarTipoSped ==
    /\ pc = "detectar"
    /\ saida' = determinarTipoSped(LinhasDe(entrada.segmentos))
    /\ pc' = "detectado"
    /\ UNCHANGED <<imposto, dadosSped, faturamento, debito, entrada, escapou,
                   arquivos, importacao, simulador>>

SpecDeteccao == InitDeteccao /\ [][DeterminarTipoSped]_vars

\* the detected type agrees with the counters of a sample: it is the type
\* with the highest counter, and fiscal when the four counters are equal
DeAcordoComAmostra(amostra) ==
    LET tipos == {"contribuicoes", "ecf", "ecd", "fiscal"}
        maiores == {t \in tipos :
                      \A o \in tipos : contadores(amostra, o) <= contadores(amostra, t)}
    IN  /\ Cardinality(maiores) = 1 => saida \in maiores
        /\ maiores = tipos => saida = "fiscal"

\* C27 (as stated): the detected type is the one with the highest count of
\* known record codes among the first 100 non-empty lines (blank lines do
\* not use up the sample), and fiscal when the four counts are equal.
C27_Original ==
    pc = "detectado"
    => LET naoVazias == SelectSeq(LinhasDe(entrada.segmentos), LAMBDA l : ~l.branca)
       IN  DeAcordoComAmostra(SubSeq(naoVazias, 1,
                                     IF Len(naoVazias) < 100 THEN Len(naoVazias) ELSE 100))

\* C27 (amended): the detected type is the one with the highest count of
\* known record codes among the first 100 lines of the file, blank lines
\* being skipped but counted in the 100, and fiscal when the four counts
\* are equal.
C27_AmostraDasPrimeirasLinhas ==
    pc = "detectado"
    => LET linhas == LinhasDe(entrada.segmentos)
       IN  DeAcordoComAmostra(SubSeq(linhas, 1, IF Len(linhas) < 100 THEN Len(linhas) ELSE 100))

\* 99 blank lines, one contributions record and then 99 goods-tax records
C27_Witness ==
    /\ pc = "detectado"
    /\ Len(entrada.segmentos) = 3
    /\ entrada.segmentos[1].linha.branca /\ entrada.segmentos[1].vezes = 99
    /\ entrada.segmentos[2].linha.registro = "M200" /\ entrada.segmentos[2].vezes = 1
    /\ entrada.segmentos[3].linha.registro = "C100" /\ entrada.segmentos[3].vezes = 99
    /\ saida = "contribuicoes"

----------------------------------------------------------------------------
(* Session specification: the import and cancel buttons pressed at any time *)
(* "arquivos" are the file inputs of the page, "importacao.emCurso" the     *)
(* imports started so far, each with the files it took from the inputs.    *)
(* The fields "cancelada" and "origem" record history and are read by no    *)
(* action.                                                                  *)

MaxImportacoes == 2     \* most imports started in one session

InitSessao ==
    /\ pc = "sessao"
    /\ arquivos = <<ArquivoAusente("fiscal"), ArquivoAusente("contribuicoes"),
                    ArquivoAusente("ecf"), ArquivoAusente("ecd")>>
    /\ importacao = [log |-> <<>>, emCurso |-> <<>>]
    /\ simulador = [preenchido |-> FALSE, nome |-> <<>>, origem |-> 0]
    /\ entrada = EntradaVazia
    /\ saida = DadosPadrao
    /\ escapou = FALSE
    /\ imposto = "pis"
    /\ dadosSped = DadosVazio
    /\ faturamento = 0
    /\ debito = NaoDef

\* the user chooses a file in the goods-tax input
SelecionarArquivo ==
    LET
        ArquivosDaSessao ==
            {[ArquivoAusente("fiscal") EXCEPT
                !.estado = "selecionado",
                !.linhas = <<[LinhaVazia EXCEPT !.registro = "0000", !.campos = 15,
                                                !.nome = n]>>] :
                n \in {"ACME SA", "BETA LTDA"}}
    IN
    /\ \E a \in ArquivosDaSessao :
          /\ arquivos[1] /= a
          /\ arquivos' = [arquivos EXCEPT ![1] = a]
    /\ UNCHANGED <<pc, imposto, dadosSped, faturamento, debito, entrada, saida, escapou, importacao, simulador>>

\* iniciarImportacao up to the call of Promise.all; nothing prevents a click
\* while an earlier import is waiting
ClicarImportar ==
    /\ Len(importacao.emCurso) < MaxImportacoes
    /\ IF Len(Promessas(arquivos)) = 0
       THEN importacao' = [importacao EXCEPT !.log = <<"erro: selecione um arquivo">>]
       ELSE importacao' =
                [log |-> <<"inicio">>,
                 emCurso |-> Append(importacao.emCurso,
                    [arquivos |-> [k \in DOMAIN arquivos |->
                                     IF arquivos[k].estado = "selecionado"
                                     THEN [arquivos[k] EXCEPT !.estado = "lendo"]
                                     ELSE arquivos[k]],
                     estado |-> "aguardando",
                     cancelada |-> FALSE])]
    /\ UNCHANGED <<pc, imposto, dadosSped, faturamento, debito, entrada, saida, escapou, arquivos, simulador>>

\* cancelarImportacao: the file inputs and the log are emptied; the reads
\* and the promises of the imports already started are not touched
CancelarImportacao ==
    /\ arquivos' = [k \in DOMAIN arquivos |-> ArquivoAusente(arquivos[k].tipo)]
    /\ importacao' =
            [log |-> <<"importacao cancelada">>,
             emCurso |-> [j \in DOMAIN importacao.emCurso |->
                            IF importacao.emCurso[j].estado = "aguardando"
                            THEN [importacao.emCurso[j] EXCEPT !.cancelada = TRUE]
                            ELSE importacao.emCurso[j]]]
    /\ UNCHANGED <<pc, imposto, dadosSped, faturamento, debito, entrada, saida, escapou, simulador>>

\* reader.onload of one file of one import
LeituraConcluida ==
    \E j \in DOMAIN importacao.emCurso : \E k \in 1..4 :
        LET a == importacao.emCurso[j].arquivos[k]
        IN  /\ a.estado = "lendo"
            /\ importacao' =
                    [importacao EXCEPT
                        !.log = Append(@, "sucesso: " \o a.tipo),
                        !.emCurso[j].arquivos[k] =
                            [a EXCEPT !.estado = "resolvida",
                                      !.dados = processarArquivoSped(a.linhas, a.tipo)]]
            /\ UNCHANGED <<pc, imposto, dadosSped, faturamento, debito, entrada, saida, escapou, arquivos, simulador>>

\* reader.onerror of one file of one import
LeituraFalhou ==
    \E j \in DOMAIN importacao.emCurso : \E k \in 1..4 :
        LET a == importacao.emCurso[j].arquivos[k]
        IN  /\ a.estado = "lendo"
            /\ importacao' =
                    [importacao EXCEPT
                        !.log = Append(@, "erro: " \o a.tipo),
                        !.emCurso[j].arquivos[k].estado = "rejeitada"]
            /\ UNCHANGED <<pc, imposto, dadosSped, faturamento, debito, entrada, saida, escapou, arquivos, simulador>>

\* the then-callback of the Promise.all of one import: combine, extract and
\* write the form; the company field is written when the name is filled
PromessaCumprida ==
    \E j \in DOMAIN importacao.emCurso :
        LET imp == importacao.emCurso[j]
            combinado == combinarResultados(ResultadosDe(imp.arquivos, importacao.log))
            dados == extrairDadosParaSimulador(ComoEntrada(combinado)).dados
        IN  /\ imp.estado = "aguardando"
            /\ TodasCumpridas(imp.arquivos)
            /\ simulador' = [preenchido |-> TRUE,
                             nome |-> IF dados.empresa.nome /= <<>> THEN dados.empresa.nome
                                      ELSE simulador.nome,
                             origem |-> j]
            /\ importacao' = [importacao EXCEPT
                                !.log = Append(@, "sucesso: importacao"),
                                !.emCurso[j].estado = "concluida"]
            /\ UNCHANGED <<pc, imposto, dadosSped, faturamento, debito, entrada, saida, escapou, arquivos>>

\* the catch-callback of the Promise.all of one import
PromessaRejeitada ==
    \E j \in DOMAIN importacao.emCurso :
        /\ importacao.emCurso[j].estado = "aguardando"
        /\ \E k \in 1..4 : importacao.emCurso[j].arquivos[k].estado = "rejeitada"
        /\ importacao' = [importacao EXCEPT
                            !.log = Append(@, "erro: importacao"),
                            !.emCurso[j].estado = "falhou"]
        /\ UNCHANGED <<pc, imposto, dadosSped, faturamento, debito, entrada, saida, escapou, arquivos, simulador>>

NextSessao ==
    \/ SelecionarArquivo
    \/ ClicarImportar
    \/ CancelarImportacao
    \/ LeituraConcluida
    \/ LeituraFalhou
    \/ PromessaCumprida
    \/ PromessaRejeitada

SpecSessao == InitSessao /\ [][NextSessao]_vars

\* C29 (as stated): after the user cancels, no result of an import that was
\* in flight at that moment is written into the simulator form.
C29_Original ==
    \A j \in DOMAIN importacao.emCurso :
        importacao.emCurso[j].cancelada => importacao.emCurso[j].estado /= "concluida"

\* C30 (as stated): when an import is started while an earlier one is in
\* flight, the results of the earlier import are never written after those
\* of the later one.
C30_Original ==
    [][simulador'.origem >= simulador.origem]_vars

====
